---- MODULE Spec2Model ----
(***************************************************************************)
(* Model of the subtitle timing engine of video-altyazi-ekleme-araci:      *)
(*   - src/app.py: srt_time, vtt_time, smart_split, hex_to_ass,            *)
(*     style_preset, write_srt, write_ass, embed_subs, the loop of main    *)
(*     over the input files, and process_one with ProgressTracker,         *)
(*     load_model, extract_audio and transcribe,                           *)
(*   - src/multilingual_processor.py: _parse_timestamp,                    *)
(*     create_tts_audio_track (and its copy in src/tts_processor.py), the  *)
(*     two combine_video_with_tts functions and                            *)
(*     process_multilingual_video,                                         *)
(*   - src/web_app.py: the style name of upload_file, and the uploads      *)
(*     whose threads share the one generator.  web_app.py imports          *)
(*     OfflineSubtitleGenerator from server, which does not define it; the *)
(*     class of that name in src/app.py is the one modelled.               *)
(* Python floats are IEEE-754 binary64 values.  They are modelled exactly: *)
(* a float is a sign, an odd mantissa and a binary exponent, and every     *)
(* float operation of the code rounds to 53 significant bits, ties to      *)
(* even, as the hardware does.  A mantissa does not fit a machine integer  *)
(* of the model checker, so it is held as a sequence of limbs.             *)
(***************************************************************************)
EXTENDS Integers, Sequences, FiniteSets, TLC

(***************************************************************************)
(* Natural numbers of arbitrary size: sequences of limbs of 10 bits, least *)
(* significant limb first, the last limb not 0 (the empty sequence is 0).  *)
(***************************************************************************)
Base == 2^10

Max(a, b) == IF a >= b THEN a ELSE b

Min(a, b) == IF a <= b THEN a ELSE b

SetMax(S) == CHOOSE x \in S : \A y \in S : y <= x

SetMin(S) == CHOOSE x \in S : \A y \in S : y >= x

Limb(a, i) == IF i >= 1 /\ i <= Len(a) THEN a[i] ELSE 0

Zeros(k) == [i \in 1..k |-> 0]

LNorm(a) ==
    LET nz == {i \in 1..Len(a) : a[i] # 0}
    IN  IF nz = {} THEN <<>> ELSE SubSeq(a, 1, SetMax(nz))

RECURSIVE LFromNat(_)
LFromNat(n) == IF n = 0 THEN <<>> ELSE <<n % Base>> \o LFromNat(n \div Base)

RECURSIVE LToNatFrom(_, _, _)
LToNatFrom(a, i, acc) ==
    IF i = 0 THEN acc ELSE LToNatFrom(a, i - 1, Base * acc + a[i])

\* the value of a, for a below 2^31
LToNat(a) == LToNatFrom(a, Len(a), 0)

RECURSIVE LAddAcc(_, _, _, _, _)
LAddAcc(a, b, i, c, acc) ==
    IF i > Max(Len(a), Len(b))
    THEN (IF c = 1 THEN Append(acc, 1) ELSE acc)
    ELSE LET s == Limb(a, i) + Limb(b, i) + c
         IN  LAddAcc(a, b, i + 1, s \div Base, Append(acc, s % Base))

LAdd(a, b) == LAddAcc(a, b, 1, 0, <<>>)

RECURSIVE LSubAcc(_, _, _, _, _)
LSubAcc(a, b, i, c, acc) ==
    IF i > Len(a) THEN acc
    ELSE LET s == Limb(a, i) - Limb(b, i) - c
         IN  LSubAcc(a, b, i + 1, IF s < 0 THEN 1 ELSE 0,
                     Append(acc, IF s < 0 THEN s + Base ELSE s))

\* a - b for a >= b
LSub(a, b) == LNorm(LSubAcc(a, b, 1, 0, <<>>))

\* -1, 0 or 1 as a < b, a = b, a > b
LCmp(a, b) ==
    IF Len(a) > Len(b) THEN 1
    ELSE IF Len(a) < Len(b) THEN -1
    ELSE LET diff == {i \in 1..Len(a) : a[i] # b[i]}
         IN  IF diff = {} THEN 0
             ELSE IF a[SetMax(diff)] > b[SetMax(diff)] THEN 1 ELSE -1

RECURSIVE LMulSmallAcc(_, _, _, _, _)
LMulSmallAcc(a, k, i, c, acc) ==
    IF i > Len(a) THEN acc \o LFromNat(c)
    ELSE LET s == c + k * a[i]
         IN  LMulSmallAcc(a, k, i + 1, s \div Base, Append(acc, s % Base))

\* a * k for a natural k <= 10^6
LMulSmall(a, k) == IF k = 0 THEN <<>> ELSE LMulSmallAcc(a, k, 1, 0, <<>>)

RECURSIVE LMulAcc(_, _, _, _)
LMulAcc(a, b, i, acc) ==
    IF i > Len(b) THEN acc
    ELSE LMulAcc(a, b, i + 1,
                 IF b[i] = 0 THEN acc
                 ELSE LAdd(acc, Zeros(i - 1) \o LMulSmall(a, b[i])))

LMul(a, b) == IF a = <<>> THEN <<>> ELSE LMulAcc(a, b, 1, <<>>)

\* the number of bits of a natural below 2^31
BitLenNat(n) == Cardinality({k \in 0..30 : 2^k <= n})

LBitLen(a) ==
    IF a = <<>> THEN 0 ELSE 10 * (Len(a) - 1) + BitLenNat(a[Len(a)])

\* bit j of a, j = 0 the least significant
LBitAt(a, j) == (Limb(a, (j \div 10) + 1) \div 2^(j % 10)) % 2

\* a \div 2^k
LShr(a, k) ==
    LET q == k \div 10
        s == k % 10
        n == Len(a) - q
    IN  IF n <= 0 THEN <<>>
        ELSE LNorm([i \in 1..n |->
                 (a[i + q] \div 2^s) + (Limb(a, i + q + 1) % 2^s) * 2^(10 - s)])

\* a * 2^k
LShl(a, k) ==
    LET q == k \div 10
        s == k % 10
    IN  IF a = <<>> THEN <<>>
        ELSE LNorm(Zeros(q) \o [i \in 1..(Len(a) + 1) |->
                 ((Limb(a, i) * 2^s) % Base) + (Limb(a, i - 1) \div 2^(10 - s))])

\* a % 2^k
LLow(a, k) ==
    LET q == k \div 10
        s == k % 10
    IN  LNorm([i \in 1..Min(Len(a), q + 1) |->
                 IF i <= q THEN a[i] ELSE a[i] % 2^s])

\* the number of zero bits below the lowest 1 bit of a # 0
LTrailingZeros(a) ==
    LET i0 == SetMin({i \in 1..Len(a) : a[i] # 0})
    IN  10 * (i0 - 1) + Cardinality({k \in 1..10 : a[i0] % 2^k = 0})

(***************************************************************************)
(* Floats.  [neg, m, e] is (-1)^neg * m * 2^e with m odd (or zero, e = 0). *)
(***************************************************************************)
DZero == [neg |-> FALSE, m |-> <<>>, e |-> 0]

Canon(neg, m, e) ==
    LET n == LNorm(m)
    IN  IF n = <<>> THEN DZero
        ELSE LET z == LTrailingZeros(n)
             IN  [neg |-> neg, m |-> LShr(n, z), e |-> e + z]

\* round-to-nearest, ties-to-even, to the 53 significant bits of a binary64
Round53(x) ==
    IF LBitLen(x.m) <= 53 THEN x
    ELSE LET k      == LBitLen(x.m) - 53
             kept   == LShr(x.m, k)
             guard  == LBitAt(x.m, k - 1)
             sticky == LLow(x.m, k - 1) # <<>>
             up     == guard = 1 /\ (sticky \/ LBitAt(x.m, k) = 1)
         IN  Canon(x.neg, IF up THEN LAdd(kept, <<1>>) ELSE kept, x.e + k)

DFromInt(n) == Canon(n < 0, LFromNat(IF n < 0 THEN -n ELSE n), 0)

\* the limbs of r/d (0 <= r < d <= 2^21) after the binary point, most
\* significant first, until 54 significant bits are out or the remainder
\* is 0; `sig` is the number of significant bits already produced.
RECURSIVE FracLimbs(_, _, _, _, _)
FracLimbs(r, d, sig, nl, acc) ==
    IF r = 0 \/ sig >= 54
    THEN [m |-> acc, nl |-> nl, rem |-> r]
    ELSE LET q == (r * Base) \div d
         IN  FracLimbs((r * Base) % d, d,
                       IF sig > 0 THEN sig + 10 ELSE BitLenNat(q),
                       nl + 1, <<q>> \o acc)

\* the float nearest to whole + r/d, for naturals whole and 0 <= r < d
DRat(whole, r, d) ==
    LET w  == LFromNat(whole)
        fl == FracLimbs(r, d, LBitLen(w), 0, w)
        \* one more limb stands for a non-zero remainder (sticky)
        m  == IF fl.rem = 0 THEN fl.m ELSE <<1>> \o fl.m
        nl == IF fl.rem = 0 THEN fl.nl ELSE fl.nl + 1
    IN  Round53(Canon(FALSE, m, -10 * nl))

DNeg(x) == IF x.m = <<>> THEN x ELSE [x EXCEPT !.neg = ~x.neg]

DAbs(x) == [x EXCEPT !.neg = FALSE]

\* exact sum of two floats (not rounded)
DAddExact(x, y) ==
    LET e  == Min(x.e, y.e)
        mx == LShl(x.m, x.e - e)
        my == LShl(y.m, y.e - e)
    IN  IF x.m = <<>> THEN y
        ELSE IF y.m = <<>> THEN x
        ELSE IF x.neg = y.neg THEN Canon(x.neg, LAdd(mx, my), e)
        ELSE IF LCmp(mx, my) >= 0 THEN Canon(x.neg, LSub(mx, my), e)
        ELSE Canon(y.neg, LSub(my, mx), e)

DAdd(x, y) == Round53(DAddExact(x, y))

DSub(x, y) == DAdd(x, DNeg(y))

DMulExact(x, y) == Canon(x.neg # y.neg, LMul(x.m, y.m), x.e + y.e)

DMul(x, y) == Round53(DMulExact(x, y))

\* the largest q with q * d <= r, from an estimate q that is not below it
RECURSIVE QuotientDigit(_, _, _)
QuotientDigit(r, d, q) ==
    IF LCmp(LMulSmall(d, q), r) <= 0 THEN q ELSE QuotientDigit(r, d, q - 1)

\* the limbs of r/d after the binary point, as FracLimbs, for naturals of any
\* size with 0 <= r < d and the top limb of d at least Base / 2: the top two
\* limbs of the remainder over the top limb of d overestimate a limb of the
\* quotient by 2 at most
RECURSIVE LFracLimbs(_, _, _, _, _)
LFracLimbs(r, d, sig, nl, acc) ==
    IF r = <<>> \/ sig >= 54
    THEN [m |-> acc, nl |-> nl, rem |-> r]
    ELSE LET r10 == LShl(r, 10)
             est == (Limb(r10, Len(d) + 1) * Base + Limb(r10, Len(d)))
                        \div d[Len(d)]
             q   == QuotientDigit(r10, d, Min(Base - 1, est))
         IN  LFracLimbs(LSub(r10, LMulSmall(d, q)), d,
                        IF sig > 0 THEN sig + 10 ELSE BitLenNat(q),
                        nl + 1, <<q>> \o acc)

\* x / y for y # 0, correctly rounded
\* the quotient limbs fl with a sticky limb for a remainder, scaled by 2^e
DQuotient(neg, fl, e) ==
    IF fl.rem = <<>> THEN Round53(Canon(neg, fl.m, e - 10 * fl.nl))
    ELSE Round53(Canon(neg, <<1>> \o fl.m, e - 10 * (fl.nl + 1)))

\* n / (d * 2^k) * 2^(e + k), the top limb of d at least Base / 2, k so
\* large that n < d * 2^k
DDivShifted(neg, n, d, k, e) ==
    DQuotient(neg, LFracLimbs(n, LShl(d, k), 0, 0, <<>>), e + k)

DDivScaled(neg, n, d, e) ==
    DDivShifted(neg, n, d, 10 * Max(0, Len(n) - Len(d) + 1), e)

DDivBy(x, y, s) ==
    DDivScaled(x.neg # y.neg, LShl(x.m, s), LShl(y.m, s), x.e - y.e)

DDiv(x, y) ==
    IF x.m = <<>> THEN DZero
    ELSE DDivBy(x, y, (10 - (LBitLen(y.m) % 10)) % 10)

\* x * k for a natural k <= 10^6, as float * float
DMulNat(x, k) == Round53(Canon(x.neg, LMulSmall(x.m, k), x.e))

\* -1, 0, 1 as x < y, x = y, x > y
\* -1, 0 or 1 as d is below, at or above zero
DSign(d) == IF d.m = <<>> THEN 0 ELSE IF d.neg THEN -1 ELSE 1

DCmp(x, y) == DSign(DAddExact(x, DNeg(y)))

\* int(x): truncation toward zero
Signed(neg, mag) == IF neg THEN -mag ELSE mag

DTrunc(x) ==
    Signed(x.neg, IF x.e >= 0 THEN LToNat(LShl(x.m, x.e))
                  ELSE LToNat(LShr(x.m, -x.e)))

\* fmod(|x|, 1.0), exact
DFracMag(x) ==
    IF x.e >= 0 THEN DZero ELSE Canon(FALSE, LLow(x.m, -x.e), x.e)

\* Python's x % 1 on floats: fmod, then + 1.0 when the result is negative
DMod1(x) ==
    LET f == DFracMag(x)
    IN  IF f.m = <<>> THEN DZero
        ELSE IF x.neg THEN DAdd(DNeg(f), DFromInt(1))
        ELSE f

(***************************************************************************)
(* Strings are sequences of one-character strings.                         *)
(***************************************************************************)
DigitChars == <<"0", "1", "2", "3", "4", "5", "6", "7", "8", "9">>

RECURSIVE Digits(_)
Digits(n) ==
    IF n < 10 THEN <<DigitChars[n + 1]>>
    ELSE Append(Digits(n \div 10), DigitChars[(n % 10) + 1])

\* Python's format(n, "0<width>d"): sign, then zeros up to the width
FormatD(n, width) ==
    LET ds   == Digits(IF n < 0 THEN -n ELSE n)
        sign == IF n < 0 THEN <<"-">> ELSE <<>>
        pad  == Max(0, width - Len(ds) - Len(sign))
    IN  sign \o [i \in 1..pad |-> "0"] \o ds

\* str.split(sep) for a one-character separator
RECURSIVE SplitAcc(_, _, _, _, _)
SplitAcc(s, sep, i, cur, acc) ==
    IF i > Len(s) THEN Append(acc, cur)
    ELSE IF s[i] = sep THEN SplitAcc(s, sep, i + 1, <<>>, Append(acc, cur))
    ELSE SplitAcc(s, sep, i + 1, Append(cur, s[i]), acc)

Split(s, sep) == SplitAcc(s, sep, 1, <<>>, <<>>)

DigitValue(c) == CHOOSE d \in 0..9 : DigitChars[d + 1] = c

IsDigit(c) == \E d \in 0..9 : DigitChars[d + 1] = c

RECURSIVE DigitsValue(_, _, _)
DigitsValue(s, i, acc) ==
    IF i > Len(s) THEN acc ELSE DigitsValue(s, i + 1, 10 * acc + DigitValue(s[i]))

\* int(s) succeeds on an optional sign followed by digits
IsIntString(s) ==
    LET body == IF s # <<>> /\ s[1] \in {"-", "+"} THEN Tail(s) ELSE s
    IN  body # <<>> /\ \A i \in 1..Len(body) : IsDigit(body[i])

PyInt(s) ==
    IF s[1] = "-" THEN -DigitsValue(Tail(s), 1, 0)
    ELSE IF s[1] = "+" THEN DigitsValue(Tail(s), 1, 0)
    ELSE DigitsValue(s, 1, 0)

(***************************************************************************)
(* TimeCodec: srt_time, vtt_time (src/app.py) and _parse_timestamp         *)
(* (src/multilingual_processor.py).                                        *)
(***************************************************************************)
\* the float a decimal literal denotes: sign, whole seconds and `us`
\* millionths of a second
FloatLiteral(t) ==
    LET mag == DRat(t.sec, t.us, 10^6)
    IN  IF t.neg THEN DNeg(mag) ELSE mag

\* timedelta(seconds=x): the whole part and 1e6 * the fractional part are
\* accumulated, the left-over fraction of a microsecond is rounded half to
\* even.  The result is kept as sign and magnitude (whole seconds,
\* microseconds); total_seconds() depends on nothing else.
HalfEven(us, half) ==
    IF half > 0 \/ (half = 0 /\ us % 2 = 1) THEN us + 1 ELSE us

RoundMicros(dnum) ==
    HalfEven(DTrunc(dnum), DCmp(DFracMag(dnum), DRat(0, 1, 2)))

Normalized(neg, whole, us) ==
    IF us >= 10^6 THEN [neg |-> neg, sec |-> whole + 1, us |-> us - 10^6]
    ELSE [neg |-> neg /\ (whole > 0 \/ us > 0), sec |-> whole, us |-> us]

timedelta(x) ==
    Normalized(x.neg, DTrunc(DAbs(x)), RoundMicros(DMulNat(DFracMag(x), 10^6)))

\* timedelta.total_seconds(): total microseconds / 10**6, correctly rounded
total_seconds(td) ==
    LET mag == DRat(td.sec, td.us, 10^6)
    IN  IF td.neg THEN DNeg(mag) ELSE mag

\* the fields both formatters compute (app.py 208-212 and 218-222)
Fields(total, milliseconds) ==
    [hours |-> total \div 3600, minutes |-> (total % 3600) \div 60,
     seconds |-> (total % 3600) % 60, milliseconds |-> milliseconds]

FieldsOf(td_total_seconds) ==
    Fields(DTrunc(td_total_seconds),
           DTrunc(DMulNat(DMod1(td_total_seconds), 1000)))

TimeFields(seconds) == FieldsOf(total_seconds(timedelta(seconds)))

FormatTime(f, sep) ==
    FormatD(f.hours, 2) \o <<":">> \o FormatD(f.minutes, 2) \o <<":">>
        \o FormatD(f.seconds, 2) \o <<sep>> \o FormatD(f.milliseconds, 3)

srt_time(seconds) == FormatTime(TimeFields(seconds), ",")

vtt_time(seconds) == FormatTime(TimeFields(seconds), ".")

\* _parse_timestamp: a float, or ValueError when an unpacking or int() fails
_parse_timestamp(timestamp_str) ==
    LET parts == Split(timestamp_str, ",")
        hms   == Split(parts[1], ":")
    IN  IF Len(parts) # 2 \/ Len(hms) # 3
           \/ ~(\A i \in 1..3 : IsIntString(hms[i])) \/ ~IsIntString(parts[2])
        THEN [ok |-> FALSE, err |-> "ValueError"]
        ELSE LET h    == PyInt(hms[1])
                 m    == PyInt(hms[2])
                 s    == PyInt(hms[3])
                 ms   == PyInt(parts[2])
                 amag == IF ms < 0 THEN -ms ELSE ms
                 q    == DRat(amag \div 1000, amag % 1000, 1000)
             IN  [ok  |-> TRUE,
                  val |-> DAdd(DFromInt(h * 3600 + m * 60 + s),
                               IF ms < 0 THEN DNeg(q) ELSE q)]

(***************************************************************************)
(* LineWrapper: smart_split (src/app.py).                                  *)
(***************************************************************************)
IsSpace(c) == c \in {" ", "\t", "\n"}

\* str.strip()
Strip(s) ==
    LET keep == {i \in 1..Len(s) : ~IsSpace(s[i])}
    IN  IF keep = {} THEN <<>> ELSE SubSeq(s, SetMin(keep), SetMax(keep))

\* str.split(): the maximal runs of non-whitespace characters, in order
Words(s) ==
    LET starts == {i \in 1..Len(s) :
                     ~IsSpace(s[i]) /\ (i = 1 \/ IsSpace(s[i - 1]))}
        ends   == {i \in 1..Len(s) :
                     ~IsSpace(s[i]) /\ (i = Len(s) \/ IsSpace(s[i + 1]))}
        nth(S, k) == CHOOSE i \in S : Cardinality({j \in S : j < i}) = k - 1
    IN  [k \in 1..Cardinality(starts) |-> SubSeq(s, nth(starts, k), nth(ends, k))]

\* ' '.join(words)
RECURSIVE JoinWords(_)
JoinWords(ws) ==
    IF ws = <<>> THEN <<>>
    ELSE IF Len(ws) = 1 THEN ws[1]
    ELSE ws[1] \o <<" ">> \o JoinWords(Tail(ws))

\* a slip in the slice width: word[i:i + max_chars + 1], stepping alike
WordPartsWide(word, max_chars) ==
    [k \in 1..((Len(word) + max_chars) \div (max_chars + 1)) |->
        SubSeq(word, (k - 1) * (max_chars + 1) + 1,
               Min(k * (max_chars + 1), Len(word)))]

\* [word[i:i + max_chars] for i in range(0, word_length, max_chars)]
WordParts(word, max_chars) ==
    [k \in 1..((Len(word) + max_chars - 1) \div max_chars) |->
        SubSeq(word, (k - 1) * max_chars + 1, Min(k * max_chars, Len(word)))]

\* a slip in the loop body: the line being built is not flushed before a
\* long word is cut, and is lost
SplitStepNoFlush(st, word, max_chars) ==
    IF Len(word) > max_chars
    THEN LET parts == WordParts(word, max_chars)
         IN  [lines          |-> st.lines \o SubSeq(parts, 1, Len(parts) - 1),
              current_line   |-> <<parts[Len(parts)]>>,
              current_length |-> Len(parts[Len(parts)])]
    ELSE LET space_needed == IF st.current_line # <<>> THEN 1 ELSE 0
         IN  IF st.current_length + Len(word) + space_needed > max_chars
             THEN [lines          |-> Append(st.lines, JoinWords(st.current_line)),
                   current_line   |-> <<word>>,
                   current_length |-> Len(word)]
             ELSE [lines          |-> st.lines,
                   current_line   |-> Append(st.current_line, word),
                   current_length |-> st.current_length + Len(word)]

\* one pass of the loop body for `word` (app.py 237-262)
SplitStep(st, word, max_chars) ==
    IF Len(word) > max_chars
    THEN LET parts   == WordParts(word, max_chars)
             flushed == IF st.current_line # <<>>
                        THEN Append(st.lines, JoinWords(st.current_line))
                        ELSE st.lines
         IN  [lines          |-> flushed \o SubSeq(parts, 1, Len(parts) - 1),
              current_line   |-> <<parts[Len(parts)]>>,
              current_length |-> Len(parts[Len(parts)])]
    ELSE LET space_needed == IF st.current_line # <<>> THEN 1 ELSE 0
         IN  IF st.current_length + Len(word) + space_needed > max_chars
             THEN [lines          |-> Append(st.lines, JoinWords(st.current_line)),
                   current_line   |-> <<word>>,
                   current_length |-> Len(word)]
             ELSE [lines          |-> st.lines,
                   current_line   |-> Append(st.current_line, word),
                   current_length |-> st.current_length + Len(word)]

RECURSIVE SplitLoop(_, _, _, _)
SplitLoop(words, i, st, max_chars) ==
    IF i > Len(words) THEN st
    ELSE SplitLoop(words, i + 1, SplitStep(st, words[i], max_chars), max_chars)

smart_split(txt, max_chars) ==
    LET stripped == Strip(txt)
        st == SplitLoop(Words(stripped), 1,
                        [lines |-> <<>>, current_line |-> <<>>,
                         current_length |-> 0], max_chars)
    IN  IF Len(stripped) <= max_chars THEN <<stripped>>
        ELSE IF st.current_line # <<>>
             THEN Append(st.lines, JoinWords(st.current_line))
             ELSE st.lines

(***************************************************************************)
(* State.                                                                  *)
(***************************************************************************)
VARIABLES
    t,          \* TimeCodec: the time passed in, as its decimal literal
    srt,        \* the result of srt_time(t), once called
    vtt,        \* the result of vtt_time(t), once called
    parsed,     \* the result of _parse_timestamp(srt_time(t)), once called
    text,       \* LineWrapper: the text passed to smart_split
    max_chars,  \* and the line width
    lines,      \* the result of smart_split(text, max_chars), once called
    variant,        \* create_tts_audio_track: the module whose copy runs
    cues,           \* the blocks of the SRT file its segments were parsed from
    segments,       \* its list of SubtitleSegment
    video_duration, \* its video_duration, as the decimal literal ffprobe printed
    tts_pc,         \* where the call is: "start", "loop", "clip", "done"
    seg_i,          \* the loop's segment, counted from 1
    silent_audio,   \* the track: its length in ms and the clips overlaid
    tts_audio,      \* the length in ms of the clip file just synthesized
    temp_files,     \* the i of every segment_<i>_<language>.mp3 on disk
    last,           \* what the loop did with the segment it handled last
    outcomes        \* what it did with every segment handled so far, in order

timeVars == <<t, srt, vtt, parsed>>

splitVars == <<text, max_chars, lines>>

ttsVars ==
    <<variant, cues, segments, video_duration, tts_pc, seg_i, silent_audio,
      tts_audio, temp_files, last, outcomes>>

VARIABLES
    mix_pc,         \* combining video and track: "start", "ffmpeg_failed",
                    \* "ffmpeg", "moviepy" (done by that path) or "failed"
    original_audio, \* the samples of the video's own audio stream
    tts_track,      \* the samples of the synthetic track
    video_len,      \* the length of the video, in samples
    mix_ratio,      \* mix_ratio, in tenths
    final_audio     \* the samples of the output's audio stream

mixVars ==
    <<mix_pc, original_audio, tts_track, video_len, mix_ratio, final_audio>>

VARIABLES
    transcript, \* the writers: the segments (start, end as decimal literals)
    cfg,        \* their SubtitleConfig
    srt_file,   \* what write_srt wrote, once called: the characters
    ass_file,   \* what write_ass wrote, once called: Style fields and events
    force_style \* the force_style embed_subs built, once called

writeVars == <<transcript, cfg, srt_file, ass_file, force_style>>

VARIABLES
    colour,          \* hex_to_ass: its hex_color
    colour_alpha,    \* and its alpha
    ass_colour,      \* the result of hex_to_ass, once called
    style_name,      \* the style name given by the user
    platform_system, \* platform.system()
    style_path,      \* how the name reached the lookup, once it did
    looked_up        \* the configuration the lookup gave, or its error

styleVars ==
    <<colour, colour_alpha, ass_colour, style_name, platform_system,
      style_path, looked_up>>

VARIABLES
    languages,      \* process_multilingual_video: the languages requested
    engine_known,   \* whether tts_engine is a key of language_configs
    embed_subtitles, \* its embed_subtitles
    lang_pc,        \* "start", "loop", "done" or "returned" (before the loop)
    lang_i,         \* the loop's language, counted from 1
    results,        \* the dictionary of results, its lists holding languages
    lang_log,       \* what happened to every language handled so far
    track_files     \* the languages whose tts_audio_<lang>.wav is on disk

langVars ==
    <<languages, engine_known, embed_subtitles, lang_pc, lang_i, results,
      lang_log, track_files>>

VARIABLES
    input_files,    \* main: the number of input files collected
    batch_pc,       \* "loop" or "done"
    batch_i,        \* the loop's file, counted from 1
    success_count,  \* its success_count
    file_log        \* what happened to every file handled so far

batchVars == <<input_files, batch_pc, batch_i, success_count, file_log>>

VARIABLES
    po_pc,        \* process_one: "start", "audio", "transcribe", "load",
                  \* "model", "write", "embed" or "done"
    po_video,     \* is_video(src)
    po_formats,   \* its formats
    model_loaded, \* whether self._model is not None
    out_files,    \* the files of this call on disk, by what they are
    written,      \* the keys of its dictionary written
    reports,      \* the percentages ProgressTracker.update printed, in order
    po_failed,    \* the stage that raised, if one did
    po_result     \* what the call returned or raised, once it has

procVars ==
    <<po_pc, po_video, po_formats, model_loaded, out_files, written, reports,
      po_failed, po_result>>

VARIABLES
    web_clock,    \* web_app: datetime.now(), in whole seconds
    generator,    \* the attributes of the global subtitle_generator
    model_handle, \* its _model: what it was loaded with, or NoModel
    model_loads,  \* how many times whisper loaded a model
    web_task      \* every upload: its request, its paths, what it ran with

webVars == <<web_clock, generator, model_handle, model_loads, web_task>>

VARIABLES
    asm_pc,       \* one language's assembly: "Idle", "Allocating",
                  \* "PerSegment", "Export", "Mixing", "Done" or "Failed"
    asm_n,        \* len(segments)
    asm_seg,      \* the loop's i, counted from 0 as enumerate does
    asm_outcomes, \* what the loop did with every segment handled so far
    asm_history,  \* the states the assembly has been in, in order
    asm_exported, \* whether tts_audio_<language>.wav has been exported
    asm_mixed,    \* whether a combine_video_with_tts_* call returned True
    asm_errors,   \* the entries this language added to results['errors']
    asm_cleaned   \* whether the final unlink of the track has been reached

asmVars ==
    <<asm_pc, asm_n, asm_seg, asm_outcomes, asm_history, asm_exported,
      asm_mixed, asm_errors, asm_cleaned>>

\* the components of the later specifications
lateVars == <<procVars, webVars, asmVars>>

\* the components after the first three
restVars ==
    <<mixVars, writeVars, styleVars, langVars, batchVars, lateVars>>

vars == <<timeVars, splitVars, ttsVars, restVars>>

NotCalled == [st |-> "none"]

Returned(v) == [st |-> "ok", val |-> v]

Raised(e) == [st |-> "err", err |-> e]

(***************************************************************************)
(* TimeCodec: the inputs and the calls.                                    *)
(***************************************************************************)
MaxSec == 2

MaxMs == 9

SecSamples == (0..MaxSec) \cup {59, 60, 3599, 3600, 3661, 86399, 86400, 360000}

MsSamples == (0..MaxMs) \cup {233, 234, 500, 999}

\* fractions of a millisecond, in microseconds
SubMsSamples == {0, 1, 500, 999}

TimeInputs ==
    [neg : BOOLEAN, sec : SecSamples,
     us : {ms * 1000 + sub : ms \in MsSamples, sub \in SubMsSamples}]

\* a component that takes no part in a specification stays as it is here
TimeIdle ==
    /\ t = [neg |-> FALSE, sec |-> 0, us |-> 0]
    /\ srt = NotCalled
    /\ vtt = NotCalled
    /\ parsed = NotCalled

SplitIdle ==
    /\ text = <<>>
    /\ max_chars = 1
    /\ lines = NotCalled

NoSegment ==
    [i |-> 0, outcome |-> "none", current |-> 0, sped |-> FALSE,
     ratio |-> DZero, placed |-> 0, position |-> 0]

TtsIdle ==
    /\ variant = "multilingual_processor"
    /\ cues = <<>>
    /\ segments = <<>>
    /\ video_duration = [neg |-> FALSE, sec |-> 0, us |-> 0]
    /\ tts_pc = "done"
    /\ seg_i = 1
    /\ silent_audio = [len |-> 0, clips |-> {}]
    /\ tts_audio = 0
    /\ temp_files = {}
    /\ last = NoSegment
    /\ outcomes = <<>>

MixIdle ==
    /\ mix_pc = "failed"
    /\ original_audio = <<>>
    /\ tts_track = <<>>
    /\ video_len = 0
    /\ mix_ratio = 0
    /\ final_audio = <<>>

WriteIdle ==
    /\ transcript = <<>>
    /\ cfg = [max_chars_per_line |-> 0]
    /\ srt_file = NotCalled
    /\ ass_file = NotCalled
    /\ force_style = NotCalled

StyleIdle ==
    /\ colour = <<>>
    /\ colour_alpha = <<>>
    /\ ass_colour = NotCalled
    /\ style_name = "default"
    /\ platform_system = "Linux"
    /\ style_path = "none"
    /\ looked_up = NotCalled

NoResults ==
    [tts_audio |-> <<>>, videos_with_tts |-> <<>>,
     videos_with_subtitles |-> <<>>, combined_videos |-> <<>>,
     errors |-> <<>>]

LangIdle ==
    /\ languages = <<>>
    /\ engine_known = TRUE
    /\ embed_subtitles = TRUE
    /\ lang_pc = "done"
    /\ lang_i = 1
    /\ results = NoResults
    /\ lang_log = <<>>
    /\ track_files = {}

BatchIdle ==
    /\ input_files = 0
    /\ batch_pc = "done"
    /\ batch_i = 1
    /\ success_count = 0
    /\ file_log = <<>>

ProcIdle ==
    /\ po_pc = "done"
    /\ po_video = FALSE
    /\ po_formats = {}
    /\ model_loaded = FALSE
    /\ out_files = {}
    /\ written = {}
    /\ reports = <<>>
    /\ po_failed = "none"
    /\ po_result = NotCalled

\* self._model is None
NoModel == [model_name |-> "none", use_gpu |-> FALSE]

\* OfflineSubtitleGenerator(whisper_model="base", use_gpu=False,
\* enhance_audio=True)
NewGenerator ==
    [model_name |-> "base", use_gpu |-> FALSE, enhance_audio |-> TRUE]

\* the uploads that may be in progress together
Tasks == {"first", "second"}

NoTask(pc) ==
    [pc |-> pc, request |-> NewGenerator, filename |-> "none",
     task_id |-> 0, stem |-> <<>>, enhance_audio |-> TRUE, model |-> NoModel]

WebIdle ==
    /\ web_clock = 0
    /\ generator = NewGenerator
    /\ model_handle = NoModel
    /\ model_loads = 0
    /\ web_task = [k \in Tasks |-> NoTask("done")]

AsmIdle ==
    /\ asm_pc = "Failed"
    /\ asm_n = 0
    /\ asm_seg = 0
    /\ asm_outcomes = <<>>
    /\ asm_history = <<>>
    /\ asm_exported = FALSE
    /\ asm_mixed = FALSE
    /\ asm_errors = 0
    /\ asm_cleaned = TRUE

LateIdle == ProcIdle /\ WebIdle /\ AsmIdle

RestIdle ==
    MixIdle /\ WriteIdle /\ StyleIdle /\ LangIdle /\ BatchIdle /\ LateIdle

FirstIdle == TimeIdle /\ SplitIdle /\ TtsIdle

firstVars == <<timeVars, splitVars, ttsVars>>

outsideMix ==
    <<firstVars, writeVars, styleVars, langVars, batchVars, lateVars>>

OutsideMixIdle ==
    /\ FirstIdle /\ WriteIdle /\ StyleIdle /\ LangIdle /\ BatchIdle
    /\ LateIdle

outsideWrite ==
    <<firstVars, mixVars, styleVars, langVars, batchVars, lateVars>>

OutsideWriteIdle ==
    /\ FirstIdle /\ MixIdle /\ StyleIdle /\ LangIdle /\ BatchIdle
    /\ LateIdle

outsideStyle ==
    <<firstVars, mixVars, writeVars, langVars, batchVars, lateVars>>

OutsideStyleIdle ==
    /\ FirstIdle /\ MixIdle /\ WriteIdle /\ LangIdle /\ BatchIdle
    /\ LateIdle

outsideLang ==
    <<firstVars, mixVars, writeVars, styleVars, batchVars, lateVars>>

OutsideLangIdle ==
    /\ FirstIdle /\ MixIdle /\ WriteIdle /\ StyleIdle /\ BatchIdle
    /\ LateIdle

outsideBatch ==
    <<firstVars, mixVars, writeVars, styleVars, langVars, lateVars>>

earlyVars ==
    <<firstVars, mixVars, writeVars, styleVars, langVars, batchVars>>

EarlyIdle ==
    FirstIdle /\ MixIdle /\ WriteIdle /\ StyleIdle /\ LangIdle /\ BatchIdle

outsideProc == <<earlyVars, webVars, asmVars>>

OutsideProcIdle == EarlyIdle /\ WebIdle /\ AsmIdle

outsideWeb == <<earlyVars, procVars, asmVars>>

OutsideWebIdle == EarlyIdle /\ ProcIdle /\ AsmIdle

outsideAsm == <<earlyVars, procVars, webVars>>

OutsideAsmIdle == EarlyIdle /\ ProcIdle /\ WebIdle

OutsideBatchIdle ==
    /\ FirstIdle /\ MixIdle /\ WriteIdle /\ StyleIdle /\ LangIdle
    /\ LateIdle

TimeInit ==
    /\ t \in TimeInputs
    /\ srt = NotCalled
    /\ vtt = NotCalled
    /\ parsed = NotCalled
    /\ SplitIdle
    /\ TtsIdle
    /\ RestIdle

CallSrtTime ==
    /\ srt = NotCalled
    /\ srt' = Returned(srt_time(FloatLiteral(t)))
    /\ UNCHANGED <<t, vtt, parsed, splitVars, ttsVars,
                   restVars>>

CallVttTime ==
    /\ vtt = NotCalled
    /\ vtt' = Returned(vtt_time(FloatLiteral(t)))
    /\ UNCHANGED <<t, srt, parsed, splitVars, ttsVars,
                   restVars>>

CallParseTimestamp ==
    /\ srt.st = "ok"
    /\ parsed = NotCalled
    /\ parsed' = LET r == _parse_timestamp(srt.val)
                 IN  IF r.ok THEN Returned(r.val) ELSE Raised(r.err)
    /\ UNCHANGED <<t, srt, vtt, splitVars, ttsVars,
                   restVars>>

TimeNext == CallSrtTime \/ CallVttTime \/ CallParseTimestamp

SpecTime == TimeInit /\ [][TimeNext]_vars

(***************************************************************************)
(* TimeCodec: the claims.                                                  *)
(***************************************************************************)
\* HH:MM:SS<sep>mmm as the contract words it, from the literal's own digits:
\* whole hours, the remaining minutes and seconds, whole milliseconds
ContractStamp(lit, sep) ==
    FormatD(lit.sec \div 3600, 2) \o <<":">>
        \o FormatD((lit.sec % 3600) \div 60, 2) \o <<":">>
        \o FormatD(lit.sec % 60, 2) \o <<sep>>
        \o FormatD(lit.us \div 1000, 3)

\* C1: for every non-negative time t, srt_time(t) is HH:MM:SS,mmm and
\* vtt_time(t) is HH:MM:SS.mmm with truncated fields and mmm the floor of
\* the fractional second times 1000 (so srt_time(3661.234) is 01:01:01,234).
C1_FormatsTruncatedFields ==
    ~t.neg =>
        /\ srt.st = "ok" => srt.val = ContractStamp(t, ",")
        /\ vtt.st = "ok" => vtt.val = ContractStamp(t, ".")

\* |x - y| <= 1 ms, in exact arithmetic
Within1ms(x, y) ==
    LET d == DAddExact(x, DNeg(y))
    IN  DCmp(Canon(FALSE, LMulSmall(d.m, 1000), d.e), DFromInt(1)) <= 0

\* C2: for every x >= 0, _parse_timestamp(srt_time(x)) is within 1 ms of x,
\* and is exactly x when x is a whole number of milliseconds.
C2_RoundTrip ==
    (~t.neg /\ parsed.st # "none") =>
        /\ parsed.st = "ok"
        /\ Within1ms(parsed.val, FloatLiteral(t))
        /\ (t.us % 1000 = 0 => parsed.val = FloatLiteral(t))

\* C3: srt_time and vtt_time fail with InvalidTimestamp on a negative number
\* of seconds; they never return a timestamp string for it.
C3_NegativeRejected ==
    (t.neg /\ (t.sec > 0 \/ t.us > 0)) =>
        /\ srt.st # "none" => (srt.st = "err" /\ srt.err = "InvalidTimestamp")
        /\ vtt.st # "none" => (vtt.st = "err" /\ vtt.err = "InvalidTimestamp")

(***************************************************************************)
(* LineWrapper: the inputs and the call.                                   *)
(***************************************************************************)
MaxLen == 6

MaxChars == 4

Alphabet == {"a", "b", " "}

Texts == UNION {[1..n -> Alphabet] : n \in 0..MaxLen}

Repeat(c, n) == [i \in 1..n |-> c]

ShortText == <<"s", "h", "o", "r", "t", " ", "t", "e", "x", "t">>

SplitInputs ==
    [text : Texts, max_chars : 1..MaxChars]
        \cup {[text |-> Repeat("a", 100), max_chars |-> 10],
              [text |-> ShortText, max_chars |-> 50],
              [text |-> <<"a", "a", " ", "b", "b", " ", "c", "c">>, max_chars |-> 7]}

SplitInit ==
    /\ \E in \in SplitInputs : text = in.text /\ max_chars = in.max_chars
    /\ lines = NotCalled
    /\ TimeIdle
    /\ TtsIdle
    /\ RestIdle

CallSmartSplit ==
    /\ lines = NotCalled
    /\ lines' = Returned(smart_split(text, max_chars))
    /\ UNCHANGED <<text, max_chars, timeVars, ttsVars,
                   restVars>>

SplitNext == CallSmartSplit

SpecSplit == SplitInit /\ [][SplitNext]_vars

(***************************************************************************)
(* LineWrapper: the claims.                                                *)
(***************************************************************************)
\* C4: every line smart_split returns has length at most maxChars.
C4_LinesFit ==
    lines.st = "ok" =>
        \A i \in 1..Len(lines.val) : Len(lines.val[i]) <= max_chars

\* C5: no line smart_split returns is empty, for every text, the empty and
\* the whitespace-only text included.
C5_NoEmptyLine ==
    lines.st = "ok" => \A i \in 1..Len(lines.val) : lines.val[i] # <<>>

NonSpace(s) == SelectSeq(s, LAMBDA c : ~IsSpace(c))

RECURSIVE Concat(_)
Concat(ls) == IF ls = <<>> THEN <<>> ELSE ls[1] \o Concat(Tail(ls))

\* C6: the lines of smart_split, concatenated in order and with whitespace
\* removed, are the text with whitespace removed: nothing is dropped,
\* duplicated or reordered.
C6_NothingDropped ==
    lines.st = "ok" => NonSpace(Concat(lines.val)) = NonSpace(text)

C6_Witness ==
    /\ lines.st = "ok"
    /\ Len(lines.val) >= 2
    /\ \E i \in 1..Len(lines.val) : \E j \in 1..Len(lines.val[i]) :
          lines.val[i][j] = " "

\* the j-th slice of length width of a word
Slice(word, j, width) ==
    SubSeq(word, (j - 1) * width + 1, Min(j * width, Len(word)))

FirstWord(line) ==
    LET sp == {i \in 1..Len(line) : line[i] = " "}
    IN  IF sp = {} THEN line ELSE SubSeq(line, 1, SetMin(sp) - 1)

\* the words of the text, split by the claim's own reading of "word"
TextWords(s) ==
    LET cut == {0, Len(s) + 1} \cup {i \in 1..Len(s) : IsSpace(s[i])}
    IN  {SubSeq(s, a + 1, b - 1) : <<a, b>> \in
            {pr \in cut \X cut : pr[1] + 1 < pr[2]
                /\ \A c \in cut : ~(pr[1] < c /\ c < pr[2])}}

\* C7: a word longer than maxChars is cut into consecutive slices of length
\* maxChars; every slice but the last is a line of its own, the last slice
\* starts the next line; one word of 100 characters with maxChars = 10
\* gives exactly 10 lines of length 10.
C7_LongWordChunked ==
    lines.st = "ok" =>
        /\ \A w \in TextWords(text) :
              Len(w) > max_chars =>
                LET n == (Len(w) + max_chars - 1) \div max_chars
                IN  \E p \in 1..Len(lines.val) :
                      /\ p + n - 1 <= Len(lines.val)
                      /\ \A j \in 1..(n - 1) :
                            lines.val[p + j - 1] = Slice(w, j, max_chars)
                      /\ FirstWord(lines.val[p + n - 1]) = Slice(w, n, max_chars)
        /\ (text = Repeat("a", 100) /\ max_chars = 10) =>
              /\ Len(lines.val) = 10
              /\ \A i \in 1..10 : lines.val[i] = Repeat("a", 10)

C7_Witness ==
    /\ lines.st = "ok"
    /\ text = Repeat("a", 100)
    /\ Len(lines.val) = 10

(***************************************************************************)
(* SegmentTrackAssembler: create_tts_audio_track, which both               *)
(* multilingual_processor.py and tts_processor.py define.  Audio is        *)
(* modelled by its length in milliseconds, as pydub's len() gives it.      *)
(***************************************************************************)
\* HH:MM:SS,mmm of a whole number of milliseconds, as an SRT block holds it
CueStamp(ms) ==
    FormatD(ms \div 3600000, 2) \o <<":">>
        \o FormatD((ms \div 60000) % 60, 2) \o <<":">>
        \o FormatD((ms \div 1000) % 60, 2) \o <<",">>
        \o FormatD(ms % 1000, 3)

\* the SubtitleSegment parse_srt_file builds from a block
SubtitleSegment(cue) ==
    LET start == _parse_timestamp(CueStamp(cue.start_ms)).val
        end   == _parse_timestamp(CueStamp(cue.end_ms)).val
    IN  [start |-> start, end |-> end, text |-> cue.text,
         duration |-> DSub(end, start)]

\* AudioSegment.silent(duration = ms)
silent(ms) == [len |-> ms, clips |-> {}]

\* the loop's skip test; tts_processor.py has none
SkipsSegment(v, segment) ==
    /\ v = "multilingual_processor"
    /\ \/ DCmp(segment.duration, DRat(0, 1, 2)) < 0
       \/ Strip(segment.text) = <<>>

\* segment.duration * 1000
TargetDuration(segment) == DMulNat(segment.duration, 1000)

\* current_duration / target_duration
SpeedRatio(segment, current_duration) ==
    DDiv(DFromInt(current_duration), TargetDuration(segment))

\* whether the clip is passed through speedup(playback_speed = speed_ratio)
SpeedsUp(v, segment, current_duration, speed_ratio) ==
    IF v = "multilingual_processor"
    THEN /\ DCmp(DFromInt(current_duration),
                 DMul(TargetDuration(segment), DRat(1, 1, 5))) > 0
         /\ DCmp(speed_ratio, DFromInt(2)) <= 0
    ELSE /\ current_duration > 0
         /\ DCmp(speed_ratio, DRat(0, 1, 2)) > 0

\* pydub's speedup drops a part of every chunk and crossfades the rest: the
\* result is len / playback_speed long, give or take what the last chunk keeps
speedup(len, playback_speed, slack) ==
    DTrunc(DDiv(DFromInt(len), playback_speed)) + slack

\* int(segment.start * 1000) and int(segment.end * 1000)
StartMs(segment) == DTrunc(DMulNat(segment.start, 1000))

EndMs(segment) == DTrunc(DMulNat(segment.end, 1000))

\* tts_audio[:n] when len(tts_audio) > n, tts_audio otherwise
FitToSegment(len, n) ==
    IF len > n THEN (IF n >= 0 THEN n ELSE Max(0, len + n)) ELSE len

\* pydub's overlay: the result is as long as the track; what of the clip
\* lies past the track's end is dropped.  A clip is the segment i it was
\* synthesized for and its length.
overlay(track, clip, position) ==
    LET audible == Min(clip.len, track.len - position)
    IN  [track EXCEPT !.clips =
            IF audible > 0
            THEN @ \cup {[i |-> clip.i, position |-> position,
                          len |-> audible]}
            ELSE @]

(***************************************************************************)
(* SegmentTrackAssembler: the inputs and the steps of one call.            *)
(***************************************************************************)
MaxSegs == 2

Variants == {"multilingual_processor", "tts_processor"}

Cue(start_ms, end_ms, txt) ==
    [start_ms |-> start_ms, end_ms |-> end_ms, text |-> txt]

\* a 2 s block, one that overlaps it, starts off a whole second and ends
\* past the end of the media, one shorter than 0.5 s, one of 0.5 s whose
\* end - start is below 0.5 as a float, one of blank text
CueSamples ==
    {Cue(0, 2000, <<"h", "i">>), Cue(1001, 3000, <<"h", "i">>),
     Cue(2000, 2400, <<"h", "i">>), Cue(63, 563, <<"h", "i">>),
     Cue(500, 1500, <<" ">>)}

\* the lists of up to MaxSegs different blocks, in any order
CueLists ==
    {l \in UNION {[1..n -> CueSamples] : n \in 0..MaxSegs} :
        \A i, j \in DOMAIN l : l[i] = l[j] => i = j}

\* 2.5 s and 1.001 s
VideoDurations ==
    {[neg |-> FALSE, sec |-> 2, us |-> 500000],
     [neg |-> FALSE, sec |-> 1, us |-> 1000]}

\* the lengths in ms a synthesized clip may have
ClipLengths == {150, 2400, 4000, 5000}

SpeedupSlack == {0, 7}

TtsInit ==
    /\ variant \in Variants
    /\ cues \in CueLists
    /\ segments = [i \in 1..Len(cues) |-> SubtitleSegment(cues[i])]
    /\ video_duration \in VideoDurations
    /\ tts_pc = "start"
    /\ seg_i = 1
    /\ silent_audio = [len |-> 0, clips |-> {}]
    /\ tts_audio = 0
    /\ temp_files = {}
    /\ last = NoSegment
    /\ outcomes = <<>>
    /\ TimeIdle
    /\ SplitIdle
    /\ RestIdle

\* silent_audio = AudioSegment.silent(duration=int(video_duration * 1000))
AllocateTrack ==
    /\ tts_pc = "start"
    /\ silent_audio' =
           silent(DTrunc(DMulNat(FloatLiteral(video_duration), 1000)))
    /\ tts_pc' = "loop"
    /\ UNCHANGED <<variant, cues, segments, video_duration, seg_i, tts_audio,
                   temp_files, last, outcomes, timeVars, splitVars,
                   restVars>>

InLoop == tts_pc = "loop" /\ seg_i <= Len(segments)

\* the skip test holds: continue
SkipSegment ==
    /\ InLoop
    /\ SkipsSegment(variant, segments[seg_i])
    /\ last' = [NoSegment EXCEPT !.i = seg_i, !.outcome = "skipped"]
    /\ outcomes' = Append(outcomes, "skipped")
    /\ seg_i' = seg_i + 1
    /\ UNCHANGED <<variant, cues, segments, video_duration, tts_pc,
                   silent_audio, tts_audio, temp_files, timeVars, splitVars,
                   restVars>>

\* a slip: the synthesis is started as a task of its own and the loop
\* goes on to the next segment without awaiting it
SynthesizeClipDetached ==
    /\ InLoop
    /\ ~SkipsSegment(variant, segments[seg_i])
    /\ \E len \in ClipLengths : tts_audio' = len
    /\ temp_files' = temp_files \cup {seg_i}
    /\ seg_i' = seg_i + 1
    /\ UNCHANGED <<variant, cues, segments, video_duration, tts_pc,
                   silent_audio, last, outcomes, timeVars, splitVars,
                   restVars>>

\* generate_tts_audio returns True, having written the clip file
SynthesizeClip ==
    /\ InLoop
    /\ ~SkipsSegment(variant, segments[seg_i])
    /\ \E len \in ClipLengths : tts_audio' = len
    /\ temp_files' = temp_files \cup {seg_i}
    /\ tts_pc' = "clip"
    /\ UNCHANGED <<variant, cues, segments, video_duration, seg_i,
                   silent_audio, last, outcomes, timeVars, splitVars,
                   restVars>>

\* a slip: the failure ends the loop (break) where the code has continue
SynthesisFailsBreaks ==
    /\ InLoop
    /\ ~SkipsSegment(variant, segments[seg_i])
    /\ \E partial \in BOOLEAN :
           temp_files' = IF partial THEN temp_files \cup {seg_i}
                         ELSE temp_files
    /\ last' = [NoSegment EXCEPT !.i = seg_i, !.outcome = "synth_failed"]
    /\ outcomes' = Append(outcomes, "synth_failed")
    /\ seg_i' = Len(segments) + 1
    /\ UNCHANGED <<variant, cues, segments, video_duration, tts_pc,
                   silent_audio, tts_audio, timeVars, splitVars,
                   restVars>>

\* generate_tts_audio returns False, with or without a partial file: continue
SynthesisFails ==
    /\ InLoop
    /\ ~SkipsSegment(variant, segments[seg_i])
    /\ \E partial \in BOOLEAN :
           temp_files' = IF partial THEN temp_files \cup {seg_i}
                         ELSE temp_files
    /\ last' = [NoSegment EXCEPT !.i = seg_i, !.outcome = "synth_failed"]
    /\ outcomes' = Append(outcomes, "synth_failed")
    /\ seg_i' = seg_i + 1
    /\ UNCHANGED <<variant, cues, segments, video_duration, tts_pc,
                   silent_audio, tts_audio, timeVars, splitVars,
                   restVars>>

\* the try block runs to its end: load, adjust speed, fit, overlay, unlink
ProcessClip ==
    /\ tts_pc = "clip"
    /\ \E speed_ratio \in {SpeedRatio(segments[seg_i], tts_audio)} :
       \E sped \in {SpeedsUp(variant, segments[seg_i], tts_audio,
                             speed_ratio)} :
       \E slack \in IF sped THEN SpeedupSlack ELSE {0} :
       \E start_ms \in {StartMs(segments[seg_i])} :
       \E end_ms \in {EndMs(segments[seg_i])} :
       \E adjusted \in {IF sped THEN speedup(tts_audio, speed_ratio, slack)
                        ELSE tts_audio} :
       \E fitted \in {FitToSegment(adjusted, end_ms - start_ms)} :
           /\ silent_audio' = overlay(silent_audio,
                                      [i |-> seg_i, len |-> fitted], start_ms)
           /\ last' = [i |-> seg_i, outcome |-> "overlaid",
                       current |-> tts_audio, sped |-> sped,
                       ratio |-> IF sped THEN speed_ratio ELSE DZero,
                       placed |-> fitted, position |-> start_ms]
    /\ outcomes' = Append(outcomes, "overlaid")
    /\ temp_files' = temp_files \ {seg_i}
    /\ tts_audio' = 0
    /\ seg_i' = seg_i + 1
    /\ tts_pc' = "loop"
    /\ UNCHANGED <<variant, cues, segments, video_duration, timeVars,
                   splitVars,
                   restVars>>

\* from_file or speedup raises: the except clause, which unlinks the clip
\* file in multilingual_processor.py only
ProcessClipRaises ==
    /\ tts_pc = "clip"
    /\ temp_files' = IF variant = "multilingual_processor"
                     THEN temp_files \ {seg_i} ELSE temp_files
    /\ last' = [NoSegment EXCEPT !.i = seg_i, !.outcome = "error"]
    /\ outcomes' = Append(outcomes, "error")
    /\ tts_audio' = 0
    /\ seg_i' = seg_i + 1
    /\ tts_pc' = "loop"
    /\ UNCHANGED <<variant, cues, segments, video_duration, silent_audio,
                   timeVars, splitVars,
                   restVars>>

\* silent_audio.export(...); return output_path
ExportTrack ==
    /\ tts_pc = "loop"
    /\ seg_i > Len(segments)
    /\ tts_pc' = "done"
    /\ UNCHANGED <<variant, cues, segments, video_duration, seg_i,
                   silent_audio, tts_audio, temp_files, last, outcomes,
                   timeVars, splitVars,
                   restVars>>

TtsNext ==
    \/ AllocateTrack
    \/ SkipSegment
    \/ SynthesizeClip
    \/ SynthesisFails
    \/ ProcessClip
    \/ ProcessClipRaises
    \/ ExportTrack

SpecTts == TtsInit /\ [][TtsNext]_vars

(***************************************************************************)
(* SegmentTrackAssembler: the claims.                                      *)
(***************************************************************************)
\* the block the segment handled last was parsed from, and its length in ms
LastCue == cues[last.i]

LastTarget == LastCue.end_ms - LastCue.start_ms

\* ratio * target is within 1 ms of current: ratio is current / target but
\* for the rounding of the floats involved
IsRatioOf(ratio, current, target) ==
    LET back == DMulExact(ratio, DFromInt(target))
    IN  /\ DCmp(back, DFromInt(current - 1)) >= 0
        /\ DCmp(back, DFromInt(current + 1)) <= 0

\* C8: a clip longer than 1.2 times its segment's duration is compressed by
\* min(clip length / target, 2.0), and a clip that is not longer than that
\* is left as it is; a 4.0 s clip for a 2.0 s segment is compressed by 2.0.
C8_CompressionRatio ==
    last.outcome = "overlaid" =>
        IF 10 * last.current > 12 * LastTarget
        THEN /\ last.sped
             /\ IF last.current >= 2 * LastTarget
                THEN last.ratio = DFromInt(2)
                ELSE IsRatioOf(last.ratio, last.current, LastTarget)
        ELSE ~last.sped

\* C9: every clip overlaid is no longer than its segment's duration
\* (end - start) and is placed at offset start.
C9_ClipWithinSegment ==
    last.outcome = "overlaid" =>
        /\ last.placed <= LastTarget
        /\ last.position = LastCue.start_ms

\* C10: from its allocation on the track is exactly totalDuration long,
\* whatever the segment list, and an empty list leaves it all silent.
C10_TrackLength ==
    tts_pc # "start" =>
        /\ silent_audio.len * 1000
               = video_duration.sec * 1000000 + video_duration.us
        /\ (cues = <<>> => silent_audio.clips = {})

\* the segment is one the contract skips: shorter than 0.5 s, or of text
\* that is empty once trimmed
ShouldSkip(cue) ==
    cue.end_ms - cue.start_ms < 500 \/ Strip(cue.text) = <<>>

\* C11: a segment is skipped, the synthesizer not called for it, exactly
\* when its duration is below 0.5 s or its text is empty after trimming;
\* every other segment is synthesized.
C11_SkipRule ==
    /\ last.i > 0 => (last.outcome = "skipped" <=> ShouldSkip(LastCue))
    /\ tts_pc = "clip" => ~ShouldSkip(cues[seg_i])

\* C12: a synthesis failure for one segment is absorbed: the segment puts
\* nothing on the track, the loop goes on with the segment after it, and
\* the call returns the track with every segment handled.
C12_FailureAbsorbed ==
    /\ \A i \in DOMAIN outcomes :
          outcomes[i] = "synth_failed" =>
              \A clip \in silent_audio.clips : clip.i # i
    /\ last.outcome = "synth_failed" => seg_i = last.i + 1
    /\ tts_pc = "done" => Len(outcomes) = Len(segments)

\* a call that returned after a failure and overlaid a later segment
C12_Witness ==
    /\ tts_pc = "done"
    /\ \E i, j \in DOMAIN outcomes :
          /\ i < j
          /\ outcomes[i] = "synth_failed"
          /\ outcomes[j] = "overlaid"
          /\ \E clip \in silent_audio.clips : clip.i = j

\* C26: the segments are handled in input order and one at a time: when
\* the loop is at segment seg_i, every segment before it has been completely
\* handled (skipped, failed or overlaid) and none after it has been begun;
\* the one segment that may be in flight is seg_i itself.
C26_Sequential ==
    /\ Len(outcomes) = seg_i - 1
    /\ outcomes # <<>> => last.i = seg_i - 1
    /\ \A clip \in silent_audio.clips : clip.i < seg_i
    /\ tts_pc = "clip" => seg_i \in DOMAIN segments
    /\ Len(segments) = Len(cues)

\* the second segment is in flight after the first was overlaid
C26_Witness ==
    /\ tts_pc = "clip"
    /\ seg_i = 2
    /\ outcomes = <<"overlaid">>

\* C28: when create_tts_audio_track returns, no per-segment clip file is
\* left in the temporary directory, and at most one exists at any time.
C28_ClipsEphemeral ==
    /\ Cardinality(temp_files) <= 1
    /\ tts_pc = "done" => temp_files = {}

(***************************************************************************)
(* The final mix: combine_video_with_tts_ffmpeg, and                       *)
(* combine_video_with_tts_moviepy when it fails.  A track is the sequence  *)
(* of its samples; a ratio is a number of tenths.                          *)
(***************************************************************************)
MaxTicks == 2

AmpSamples == {-40, 0, 40}

Tracks(n) == [1..n -> AmpSamples]

MixRatios == {0, 3, 10}

\* ffmpeg's volume=<ratio> and moviepy's volumex(ratio)
volume(track, tenths) == [n \in DOMAIN track |-> (track[n] * tenths) \div 10]

\* ffmpeg's amix=inputs=2:duration=first: as long as the first input; each
\* of the two inputs scaled by 1/2 while both run; once the second has
\* ended the gain of the first rises from 1/2 towards 1 (tail_gain halves)
amix(first, second, tail_gain) ==
    [n \in DOMAIN first |->
        IF n <= Len(second) THEN (first[n] + second[n]) \div 2
        ELSE (first[n] * tail_gain) \div 2]

subclip(track, end) == SubSeq(track, 1, end)

\* moviepy's CompositeAudioClip of two clips of one length
CompositeAudioClip(a, b) == [n \in DOMAIN a |-> a[n] + b[n]]

combine_video_with_tts_ffmpeg(original, tts, ratio, tail_gain) ==
    amix(volume(original, ratio), volume(tts, 10), tail_gain)

combine_video_with_tts_moviepy(original, tts, ratio, duration) ==
    CompositeAudioClip(
        subclip(volume(original, ratio),
                Min(Min(Len(original), Len(tts)), duration)),
        subclip(volume(tts, 10),
                Min(Min(Len(original), Len(tts)), duration)))

\* the video has an audio stream no longer than the video; the track is
\* int(video_duration * 1000) ms of samples, the video's length or less
MixInit ==
    /\ mix_pc = "start"
    /\ video_len \in 1..MaxTicks
    /\ \E n \in 1..video_len : original_audio \in Tracks(n)
    /\ \E n \in {video_len - 1, video_len} \ {0} : tts_track \in Tracks(n)
    /\ mix_ratio \in MixRatios
    /\ final_audio = <<>>
    /\ OutsideMixIdle

CombineFfmpeg ==
    /\ mix_pc = "start"
    /\ mix_pc' = "ffmpeg"
    /\ \E tail_gain \in {1, 2} :
          final_audio' = combine_video_with_tts_ffmpeg(
                             original_audio, tts_track, mix_ratio, tail_gain)
    /\ UNCHANGED <<original_audio, tts_track, video_len, mix_ratio, outsideMix>>

\* ffmpeg missing, timing out or exiting with an error
CombineFfmpegFails ==
    /\ mix_pc = "start"
    /\ mix_pc' = "ffmpeg_failed"
    /\ UNCHANGED <<original_audio, tts_track, video_len, mix_ratio,
                   final_audio, outsideMix>>

CombineMoviepy ==
    /\ mix_pc = "ffmpeg_failed"
    /\ mix_pc' = "moviepy"
    /\ final_audio' = combine_video_with_tts_moviepy(
                          original_audio, tts_track, mix_ratio, video_len)
    /\ UNCHANGED <<original_audio, tts_track, video_len, mix_ratio, outsideMix>>

\* MoviePy not available, or raising
CombineMoviepyFails ==
    /\ mix_pc = "ffmpeg_failed"
    /\ mix_pc' = "failed"
    /\ UNCHANGED <<original_audio, tts_track, video_len, mix_ratio,
                   final_audio, outsideMix>>

MixNext ==
    CombineFfmpeg \/ CombineFfmpegFails \/ CombineMoviepy
        \/ CombineMoviepyFails

SpecMix == MixInit /\ [][MixNext]_vars

\* the sample of a track at n, silence outside it
At(track, n) == IF n \in DOMAIN track THEN track[n] ELSE 0

\* C13: once combined, the output's audio is as long as the media and every
\* sample of it is original * ratio + synthetic, the synthetic track at full
\* volume (ratio 0: the synthetic sample alone; ratio 1: the plain sum).
C13_MixFormula ==
    mix_pc \in {"ffmpeg", "moviepy"} =>
        /\ Len(final_audio) = video_len
        /\ \A n \in 1..video_len :
              final_audio[n] * 10
                  = At(original_audio, n) * mix_ratio + At(tts_track, n) * 10

(***************************************************************************)
(* Colours and style presets (src/app.py).  A colour is the sequence of    *)
(* its characters; background_opacity holds the hundredths of its literal. *)
(***************************************************************************)
HexLower ==
    <<"0", "1", "2", "3", "4", "5", "6", "7", "8", "9",
      "a", "b", "c", "d", "e", "f">>

HexUpper ==
    <<"0", "1", "2", "3", "4", "5", "6", "7", "8", "9",
      "A", "B", "C", "D", "E", "F">>

\* the digits of n >= 0 in base 16: hex(n)[2:] with HexLower, format(n, "X")
\* with HexUpper
RECURSIVE HexDigits(_, _)
HexDigits(n, digits) ==
    IF n < 16 THEN <<digits[n + 1]>>
    ELSE Append(HexDigits(n \div 16, digits), digits[(n % 16) + 1])

\* str.zfill(width) of a string without a sign
zfill(s, width) == [i \in 1..(width - Len(s)) |-> "0"] \o s

\* str.upper() on hexadecimal digits
upper(s) ==
    [i \in DOMAIN s |->
        IF \E d \in 11..16 : HexLower[d] = s[i]
        THEN HexUpper[CHOOSE d \in 11..16 : HexLower[d] = s[i]]
        ELSE s[i]]

IsHexDigit(c) == \E d \in 1..16 : HexLower[d] = c \/ HexUpper[d] = c

HexDigitValue(c) == (CHOOSE d \in 1..16 : HexLower[d] = c \/ HexUpper[d] = c) - 1

\* int(s, 16) of at most two characters: ValueError on the empty string and
\* on a character that is no hexadecimal digit
IsHexString(s) == s # <<>> /\ \A i \in DOMAIN s : IsHexDigit(s[i])

HexValue(s) ==
    IF Len(s) = 1 THEN HexDigitValue(s[1])
    ELSE 16 * HexDigitValue(s[1]) + HexDigitValue(s[2])

\* str.lstrip(c)
LStrip(s, c) ==
    IF \A i \in DOMAIN s : s[i] = c THEN <<>>
    ELSE SubSeq(s, SetMin({i \in DOMAIN s : s[i] # c}), Len(s))

\* h[a:b] of Python, for 0 <= a <= b
Slice2(h, a, b) == SubSeq(h, a + 1, Min(b, Len(h)))

\* ''.join([c * 2 for c in h])
Doubled(h) == [i \in 1..(2 * Len(h)) |-> h[(i + 1) \div 2]]

\* a slip: the bytes in the order they are read, red first
HexChannelsRgb(h, alpha) ==
    IF \A k \in 0..2 : IsHexString(Slice2(h, 2 * k, 2 * k + 2))
    THEN Returned(<<"&", "H">> \o alpha
             \o zfill(HexDigits(HexValue(Slice2(h, 0, 2)), HexUpper), 2)
             \o zfill(HexDigits(HexValue(Slice2(h, 2, 4)), HexUpper), 2)
             \o zfill(HexDigits(HexValue(Slice2(h, 4, 6)), HexUpper), 2))
    ELSE Raised("ValueError")

\* app.py 201-202: r, g, b and the f-string, for h after lstrip and doubling
HexChannels(h, alpha) ==
    IF \A k \in 0..2 : IsHexString(Slice2(h, 2 * k, 2 * k + 2))
    THEN Returned(<<"&", "H">> \o alpha
             \o zfill(HexDigits(HexValue(Slice2(h, 4, 6)), HexUpper), 2)
             \o zfill(HexDigits(HexValue(Slice2(h, 2, 4)), HexUpper), 2)
             \o zfill(HexDigits(HexValue(Slice2(h, 0, 2)), HexUpper), 2))
    ELSE Raised("ValueError")

ShortForm(h) == IF Len(h) = 3 THEN Doubled(h) ELSE h

hex_to_ass(hex_color, alpha) ==
    HexChannels(ShortForm(LStrip(hex_color, "#")), alpha)

Colour(a, b, c, d, e, f) == <<"#", a, b, c, d, e, f>>

Systems == {"Windows", "Darwin", "Linux"}

get_system_fonts(system) ==
    IF system = "Windows"
    THEN <<"Arial", "Segoe UI", "Calibri", "Times New Roman">>
    ELSE IF system = "Darwin"
    THEN <<"Helvetica", "Arial", "Menlo", "Times New Roman">>
    ELSE <<"DejaVu Sans", "Liberation Sans", "Arial", "FreeSans">>

base_font(system) == get_system_fonts(system)[1]

InFonts(font, system) ==
    \E i \in DOMAIN get_system_fonts(system) : get_system_fonts(system)[i] = font

\* the values of the enumeration SubtitleStyle
SubtitleStyle ==
    {"default", "bold", "elegant", "cinema", "modern", "minimal", "terminal"}

\* style_preset: a chain of comparisons with the six named members, and
\* the default configuration for anything else
style_preset(style, system) ==
    IF style = "bold" THEN
        [font_name |-> base_font(system),
         font_size |-> 28,
         font_color |-> Colour("F", "F", "F", "F", "F", "F"),
         outline_color |-> Colour("0", "0", "0", "0", "0", "0"),
         shadow_color |-> Colour("0", "0", "0", "0", "0", "0"),
         background_color |-> Colour("2", "2", "2", "2", "2", "2"),
         background_opacity |-> 85,
         outline_width |-> 3, shadow_offset |-> 2, alignment |-> 2,
         margin_vertical |-> 40, margin_horizontal |-> 30,
         max_chars_per_line |-> 42, line_spacing |-> 5,
         wrap_style |-> 0]
    ELSE IF style = "elegant" THEN
        [font_name |-> IF InFonts("Times New Roman", system)
                       THEN "Times New Roman" ELSE base_font(system),
         font_size |-> 26,
         font_color |-> Colour("F", "5", "F", "5", "D", "C"),
         outline_color |-> Colour("2", "F", "2", "F", "2", "F"),
         shadow_color |-> Colour("1", "A", "1", "A", "1", "A"),
         background_color |-> Colour("2", "F", "2", "F", "2", "F"),
         background_opacity |-> 70,
         outline_width |-> 1, shadow_offset |-> 1, alignment |-> 2,
         margin_vertical |-> 50, margin_horizontal |-> 60,
         max_chars_per_line |-> 45, line_spacing |-> 8,
         wrap_style |-> 0]
    ELSE IF style = "cinema" THEN
        [font_name |-> "Arial",
         font_size |-> 32,
         font_color |-> Colour("F", "F", "D", "7", "0", "0"),
         outline_color |-> Colour("0", "0", "0", "0", "0", "0"),
         shadow_color |-> Colour("0", "0", "0", "0", "0", "0"),
         background_color |-> Colour("0", "0", "0", "0", "0", "0"),
         background_opacity |-> 90,
         outline_width |-> 2, shadow_offset |-> 3, alignment |-> 2,
         margin_vertical |-> 30, margin_horizontal |-> 20,
         max_chars_per_line |-> 38, line_spacing |-> 4,
         wrap_style |-> 3]
    ELSE IF style = "modern" THEN
        [font_name |-> IF InFonts("Roboto", system) THEN "Roboto" ELSE "Arial",
         font_size |-> 24,
         font_color |-> Colour("0", "0", "F", "F", "4", "1"),
         outline_color |-> Colour("1", "A", "1", "A", "1", "A"),
         shadow_color |-> Colour("0", "A", "0", "A", "0", "A"),
         background_color |-> Colour("1", "A", "1", "A", "1", "A"),
         background_opacity |-> 70,
         outline_width |-> 1, shadow_offset |-> 2, alignment |-> 2,
         margin_vertical |-> 35, margin_horizontal |-> 40,
         max_chars_per_line |-> 50, line_spacing |-> 6,
         wrap_style |-> 0]
    ELSE IF style = "minimal" THEN
        [font_name |-> base_font(system),
         font_size |-> 20,
         font_color |-> Colour("F", "F", "F", "F", "F", "F"),
         outline_color |-> Colour("0", "0", "0", "0", "0", "0"),
         shadow_color |-> Colour("0", "0", "0", "0", "0", "0"),
         background_color |-> Colour("0", "0", "0", "0", "0", "0"),
         background_opacity |-> 50,
         outline_width |-> 0, shadow_offset |-> 0, alignment |-> 2,
         margin_vertical |-> 20, margin_horizontal |-> 10,
         max_chars_per_line |-> 55, line_spacing |-> 3,
         wrap_style |-> 1]
    ELSE IF style = "terminal" THEN
        [font_name |-> IF InFonts("Courier New", system)
                       THEN "Courier New" ELSE "Monospace",
         font_size |-> 22,
         font_color |-> Colour("0", "0", "F", "F", "0", "0"),
         outline_color |-> Colour("0", "0", "3", "3", "0", "0"),
         shadow_color |-> Colour("0", "0", "1", "1", "0", "0"),
         background_color |-> Colour("0", "0", "0", "0", "0", "0"),
         background_opacity |-> 80,
         outline_width |-> 0, shadow_offset |-> 1, alignment |-> 1,
         margin_vertical |-> 25, margin_horizontal |-> 50,
         max_chars_per_line |-> 60, line_spacing |-> 2,
         wrap_style |-> 1]
    ELSE
        [font_name |-> base_font(system),
         font_size |-> 24,
         font_color |-> Colour("F", "F", "F", "F", "F", "F"),
         outline_color |-> Colour("0", "0", "0", "0", "0", "0"),
         shadow_color |-> Colour("0", "0", "0", "0", "0", "0"),
         background_color |-> Colour("0", "0", "0", "0", "0", "0"),
         background_opacity |-> 70,
         outline_width |-> 2, shadow_offset |-> 1, alignment |-> 2,
         margin_vertical |-> 30, margin_horizontal |-> 20,
         max_chars_per_line |-> 50, line_spacing |-> 5,
         wrap_style |-> 0]

(***************************************************************************)
(* The writers: write_srt, write_ass and the force_style of embed_subs     *)
(* (src/app.py).  A file is the sequence of the characters written.        *)
(***************************************************************************)
\* str.replace(old, new) for one-character strings
Replace(s, old, new) == [i \in DOMAIN s |-> IF s[i] = old THEN new ELSE s[i]]

\* sep.join(ls)
RECURSIVE Join(_, _)
Join(ls, sep) ==
    IF ls = <<>> THEN <<>>
    ELSE IF Len(ls) = 1 THEN ls[1]
    ELSE ls[1] \o sep \o Join(Tail(ls), sep)

\* the lines of a segment: strip, newlines to spaces, smart_split
SegLines(seg, config) ==
    smart_split(Replace(Strip(seg.text), "\n", " "), config.max_chars_per_line)

Arrow == <<" ", "-", "-", ">", " ">>

\* a slip: enumerate(segments) without its start of 1
srt_block_from0(i, seg, config) ==
    Digits(i - 1) \o <<"\n">>
        \o srt_time(FloatLiteral(seg.start)) \o Arrow
        \o srt_time(FloatLiteral(seg.end)) \o <<"\n">>
        \o Join(SegLines(seg, config), <<"\n">>) \o <<"\n", "\n">>

\* the three writes of write_srt for segment i
srt_block(i, seg, config) ==
    Digits(i) \o <<"\n">>
        \o srt_time(FloatLiteral(seg.start)) \o Arrow
        \o srt_time(FloatLiteral(seg.end)) \o <<"\n">>
        \o Join(SegLines(seg, config), <<"\n">>) \o <<"\n", "\n">>

RECURSIVE WriteSrtFrom(_, _, _)
WriteSrtFrom(segs, config, i) ==
    IF i > Len(segs) THEN <<>>
    ELSE srt_block(i, segs[i], config) \o WriteSrtFrom(segs, config, i + 1)

write_srt(segs, config) == WriteSrtFrom(segs, config, 1)

\* alpha of the background: hex(int(opacity * 255))[2:].zfill(2)
AlphaHex(opacity) ==
    zfill(HexDigits(DTrunc(DMulNat(DRat(opacity \div 100, opacity % 100, 100),
                                   255)),
                    HexLower), 2)

DialogueHead == <<"D", "i", "a", "l", "o", "g", "u", "e", ":", " ", "0", ",">>

DialogueStyle == <<"D", "e", "f", "a", "u", "l", "t", ",", ",", "0", ",", "0", ",", "0", ",", ",">>

\* a slip: the period of vtt_time left as it is
DialogueWithPeriod(seg, config) ==
    DialogueHead
        \o vtt_time(FloatLiteral(seg.start)) \o <<",">>
        \o vtt_time(FloatLiteral(seg.end)) \o <<",">>
        \o DialogueStyle \o Join(SegLines(seg, config), <<"\\", "N">>)

\* the two writes of write_ass for a segment, without the final newline
Dialogue(seg, config) ==
    DialogueHead
        \o Replace(vtt_time(FloatLiteral(seg.start)), ".", ",") \o <<",">>
        \o Replace(vtt_time(FloatLiteral(seg.end)), ".", ",") \o <<",">>
        \o DialogueStyle \o Join(SegLines(seg, config), <<"\\", "N">>)

\* the fields write_ass formats into the Style line
StyleLine(config) ==
    [Fontname |-> config.font_name,
     Fontsize |-> config.font_size,
     PrimaryColour |-> hex_to_ass(config.font_color, <<"0", "0">>),
     SecondaryColour |-> hex_to_ass(config.font_color, <<"0", "0">>),
     OutlineColour |-> hex_to_ass(config.outline_color, <<"0", "0">>),
     BackColour |-> hex_to_ass(config.background_color,
                               upper(AlphaHex(config.background_opacity))),
     Outline |-> config.outline_width,
     Shadow |-> config.shadow_offset,
     Alignment |-> config.alignment,
     MarginL |-> config.margin_horizontal,
     MarginR |-> config.margin_horizontal,
     MarginV |-> config.margin_vertical]

write_ass(segs, config) ==
    [WrapStyle |-> config.wrap_style,
     Style |-> StyleLine(config),
     Events |-> [k \in DOMAIN segs |-> Dialogue(segs[k], config)]]

\* the style embed_subs passes for a subtitle file that is not .ass
ForceStyle(config) ==
    [FontName |-> config.font_name,
     FontSize |-> config.font_size,
     PrimaryColour |-> hex_to_ass(config.font_color, <<"0", "0">>),
     BackColour |-> hex_to_ass(config.background_color,
                               AlphaHex(config.background_opacity)),
     OutlineColour |-> hex_to_ass(config.outline_color, <<"0", "0">>),
     Outline |-> config.outline_width,
     Shadow |-> config.shadow_offset,
     Alignment |-> config.alignment,
     MarginV |-> config.margin_vertical,
     MarginL |-> config.margin_horizontal,
     MarginR |-> config.margin_horizontal]

MaxBlocks == 2

Stamp(sec, ms) == [neg |-> FALSE, sec |-> sec, us |-> ms * 1000]

Seg(start, end, txt) == [start |-> start, end |-> end, text |-> txt]

Segs ==
    {Seg(Stamp(0, 0), Stamp(2, 0), <<"h", "i">>),
     Seg(Stamp(2, 0), Stamp(4, 0), <<"t", "h", "e", "r", "e">>),
     Seg(Stamp(0, 0), Stamp(2, 0), <<"t", "h", "e", "r", "e">>),
     Seg(Stamp(1, 1), Stamp(2, 500), <<" ", "a", "\n", "b">>),
     Seg(Stamp(2, 0), Stamp(4, 0), <<>>)}

Transcripts == UNION {[1..n -> Segs] : n \in 0..MaxBlocks}

Configs ==
    {[style_preset(style, system) EXCEPT !.max_chars_per_line = m] :
        style \in SubtitleStyle, system \in Systems, m \in {4, 20}}

WriteInit ==
    /\ transcript \in Transcripts
    /\ cfg \in Configs
    /\ srt_file = NotCalled
    /\ ass_file = NotCalled
    /\ force_style = NotCalled
    /\ OutsideWriteIdle

NothingWritten ==
    srt_file = NotCalled /\ ass_file = NotCalled /\ force_style = NotCalled

CallWriteSrt ==
    /\ NothingWritten
    /\ srt_file' = Returned(write_srt(transcript, cfg))
    /\ UNCHANGED <<transcript, cfg, ass_file, force_style, outsideWrite>>

CallWriteAss ==
    /\ NothingWritten
    /\ ass_file' = Returned(write_ass(transcript, cfg))
    /\ UNCHANGED <<transcript, cfg, srt_file, force_style, outsideWrite>>

CallEmbedSubs ==
    /\ NothingWritten
    /\ force_style' = Returned(ForceStyle(cfg))
    /\ UNCHANGED <<transcript, cfg, srt_file, ass_file, outsideWrite>>

WriteNext == CallWriteSrt \/ CallWriteAss \/ CallEmbedSubs

SpecWrite == WriteInit /\ [][WriteNext]_vars

(***************************************************************************)
(* The writers: the claims.                                                *)
(***************************************************************************)
\* the lines a file of blocks for segments k.. must consist of
RECURSIVE BlockLinesFrom(_)
BlockLinesFrom(k) ==
    IF k > Len(transcript) THEN <<>>
    ELSE <<Digits(k),
           srt_time(FloatLiteral(transcript[k].start)) \o Arrow
               \o srt_time(FloatLiteral(transcript[k].end))>>
         \o SegLines(transcript[k], cfg) \o << <<>> >> \o BlockLinesFrom(k + 1)

ExampleTranscript ==
    <<[start |-> Stamp(0, 0), end |-> Stamp(2, 0), text |-> <<"h", "i">>],
      [start |-> Stamp(2, 0), end |-> Stamp(4, 0),
       text |-> <<"t", "h", "e", "r", "e">>]>>

ExampleSrt ==
    <<"1", "\n", "0", "0", ":", "0", "0", ":", "0", "0", ",", "0",
      "0", "0", " ", "-", "-", ">", " ", "0", "0", ":", "0", "0", ":",
      "0", "2", ",", "0", "0", "0", "\n", "h", "i", "\n", "\n", "2",
      "\n", "0", "0", ":", "0", "0", ":", "0", "2", ",", "0", "0",
      "0", " ", "-", "-", ">", " ", "0", "0", ":", "0", "0", ":", "0",
      "4", ",", "0", "0", "0", "\n", "t", "h", "e", "r", "e", "\n",
      "\n">>

IsExample == transcript = ExampleTranscript /\ cfg.max_chars_per_line = 20

\* C14: write_srt emits one block per segment, in input order and numbered
\* from 1: the index line, srt_time(start) --> srt_time(end), the wrapped
\* lines and a blank line; for (0,2,"hi"), (2,4,"there") and 20 characters
\* a line it emits exactly the two blocks of the example.
C14_SrtBlocks ==
    srt_file.st = "ok" =>
        /\ Split(srt_file.val, "\n") = BlockLinesFrom(1) \o << <<>> >>
        /\ IsExample => srt_file.val = ExampleSrt

\* write_srt has written the file of the example
C14_Witness == srt_file.st = "ok" /\ IsExample

\* the fields f of a Dialogue line, split at its commas, are those of seg
IsDialogueOf(f, seg) ==
    /\ Len(f) >= 12
    /\ f[1] = SubSeq(DialogueHead, 1, Len(DialogueHead) - 1)
    /\ Len(f[2]) = 8
    /\ Len(f[3]) = 3
    /\ f[2] \o <<".">> \o f[3] = vtt_time(FloatLiteral(seg.start))
    /\ f[4] \o <<".">> \o f[5] = vtt_time(FloatLiteral(seg.end))
    /\ Join(SubSeq(f, 12, Len(f)), <<",">>)
          = Join(SegLines(seg, cfg), <<"\\", "N">>)

\* C15: write_ass emits one Dialogue line per segment, in input order; its
\* text is the wrapped lines joined by \N, its timestamps are those of
\* vtt_time with the period replaced by a comma (HH:MM:SS,mmm).
C15_AssDialogue ==
    ass_file.st = "ok" =>
        /\ Len(ass_file.val.Events) = Len(transcript)
        /\ \A k \in DOMAIN transcript :
              IsDialogueOf(Split(ass_file.val.Events[k], ","), transcript[k])

\* write_ass has written two events, one of them of several lines
C15_Witness ==
    /\ ass_file.st = "ok"
    /\ Len(transcript) = 2
    /\ transcript[1] # transcript[2]
    /\ \E k \in DOMAIN transcript : Len(SegLines(transcript[k], cfg)) >= 2

\* opacity * 255 rounded to an integer, a tie either way; opacity in
\* hundredths
Rounded(opacity) ==
    {n \in 0..255 : 2 * 100 * n - 100 <= 2 * 255 * opacity
                    /\ 2 * 255 * opacity <= 2 * 100 * n + 100}

\* the alpha byte of an ASS colour &HAABBGGRR
AlphaOf(ass) == SubSeq(ass.val, 3, 4)

\* C16: in the Style line (and the style embed_subs forces) the background
\* colour's alpha byte is round(opacity * 255) as 2 upper-case hex digits,
\* and the foreground and outline colours' alpha byte is 00.
C16_StyleAlpha ==
    /\ ass_file.st = "ok" =>
          /\ \E n \in Rounded(cfg.background_opacity) :
                AlphaOf(ass_file.val.Style.BackColour)
                    = zfill(HexDigits(n, HexUpper), 2)
          /\ AlphaOf(ass_file.val.Style.PrimaryColour) = <<"0", "0">>
          /\ AlphaOf(ass_file.val.Style.OutlineColour) = <<"0", "0">>
    /\ force_style.st = "ok" =>
          /\ \E n \in Rounded(cfg.background_opacity) :
                AlphaOf(force_style.val.BackColour)
                    = zfill(HexDigits(n, HexUpper), 2)
          /\ AlphaOf(force_style.val.PrimaryColour) = <<"0", "0">>
          /\ AlphaOf(force_style.val.OutlineColour) = <<"0", "0">>

(***************************************************************************)
(* hex_to_ass and the ways a style name reaches style_preset: a direct     *)
(* call, the command line (parse_args, main) and the upload handler of     *)
(* web_app.py.                                                             *)
(***************************************************************************)
ColourSamples ==
    {<<"#", "F", "F", "F", "F", "F", "F">>,
     <<"#", "A", "B", "C">>,
     <<"#", "A", "A", "B", "B", "C", "C">>,
     <<"#", "a", "b", "c">>,
     <<"#", "1", "a", "2", "B", "3", "c">>,
     <<"#", "0", "f", "0">>,
     <<"#", "0", "0", "F", "F", "4", "1">>,
     <<"#", "F", "5", "F", "5", "D", "C">>,
     <<"#", "0", "9", "f">>}

AlphaSamples == {<<"0", "0">>, <<"D", "8">>, <<"b", "2">>}

StyleNames == SubtitleStyle \cup {"grunge", "Bold", ""}

\* SubtitleStyle(value): the member with that value, or ValueError
SubtitleStyleOf(value) ==
    IF value \in SubtitleStyle THEN Returned(value) ELSE Raised("ValueError")

StyleInit ==
    /\ colour \in ColourSamples
    /\ colour_alpha \in AlphaSamples
    /\ ass_colour = NotCalled
    /\ style_name \in StyleNames
    /\ platform_system \in Systems
    /\ style_path = "none"
    /\ looked_up = NotCalled
    /\ OutsideStyleIdle

NothingCalled == ass_colour = NotCalled /\ style_path = "none"

CallHexToAss ==
    /\ NothingCalled
    /\ ass_colour' = hex_to_ass(colour, colour_alpha)
    /\ UNCHANGED <<colour, colour_alpha, style_name, platform_system,
                   style_path, looked_up, outsideStyle>>

\* style_preset called with the name itself
CallStylePreset ==
    /\ NothingCalled
    /\ style_path' = "style_preset"
    /\ looked_up' = Returned(style_preset(style_name, platform_system))
    /\ UNCHANGED <<colour, colour_alpha, ass_colour, style_name,
                   platform_system, outsideStyle>>

\* --style: argparse exits on a value outside choices; main then passes
\* SubtitleStyle(args.style) to process_one, which calls style_preset
CliLookup ==
    /\ NothingCalled
    /\ style_path' = "cli"
    /\ looked_up' =
          IF style_name \notin SubtitleStyle THEN Raised("SystemExit")
          ELSE Returned(style_preset(SubtitleStyleOf(style_name).val,
                                     platform_system))
    /\ UNCHANGED <<colour, colour_alpha, ass_colour, style_name,
                   platform_system, outsideStyle>>

\* the form field 'style': SubtitleStyle(subtitle_style) raises inside the
\* handler's try, which reports the error and processes nothing
WebLookup ==
    /\ NothingCalled
    /\ style_path' = "web"
    /\ looked_up' =
          IF SubtitleStyleOf(style_name).st = "err"
          THEN SubtitleStyleOf(style_name)
          ELSE Returned(style_preset(SubtitleStyleOf(style_name).val,
                                     platform_system))
    /\ UNCHANGED <<colour, colour_alpha, ass_colour, style_name,
                   platform_system, outsideStyle>>

StyleNext == CallHexToAss \/ CallStylePreset \/ CliLookup \/ WebLookup

SpecStyle == StyleInit /\ [][StyleNext]_vars

IsRRGGBB(c) ==
    Len(c) = 7 /\ c[1] = "#" /\ \A i \in 2..7 : IsHexDigit(c[i])

IsRGB(c) ==
    Len(c) = 4 /\ c[1] = "#" /\ \A i \in 2..4 : IsHexDigit(c[i])

\* &H, the alpha, then the digits of blue, green and red in upper case
AssOf(c, a) ==
    Returned(<<"&", "H">> \o a \o upper(<<c[6], c[7], c[4], c[5], c[2], c[3]>>))

DoubledColour(c) == <<"#", c[2], c[2], c[3], c[3], c[4], c[4]>>

\* C17: hex_to_ass(#RRGGBB, alpha) is &H, alpha, then the blue, green and
\* red bytes as 2 upper-case hex digits each; #RGB gives what #RRGGBB with
\* every digit doubled gives; hex_to_ass("#FFFFFF", "00") = "&<<"&", "H", "0", "0", "F", "F", "F", "F", "F", "F">>".
C17_HexToAss ==
    ass_colour # NotCalled =>
        /\ IsRRGGBB(colour) => ass_colour = AssOf(colour, colour_alpha)
        /\ IsRGB(colour) =>
              /\ ass_colour = AssOf(DoubledColour(colour), colour_alpha)
              /\ ass_colour = hex_to_ass(DoubledColour(colour), colour_alpha)
        /\ colour = <<"#", "F", "F", "F", "F", "F", "F">> /\ colour_alpha = <<"0", "0">> =>
              ass_colour = Returned(<<"&", "H", "0", "0", "F", "F", "F", "F", "F", "F">>)

\* hex_to_ass has returned for "#ABC" and "00"
C17_Witness ==
    /\ ass_colour.st = "ok"
    /\ colour = <<"#", "A", "B", "C">>
    /\ colour_alpha = <<"0", "0">>

\* C18: the lookup is total on every path: a name of the seven yields its
\* own preset, different from every other name's, and any other name yields
\* the default preset, never an error.
C18_LookupTotal ==
    style_path # "none" =>
        /\ looked_up.st = "ok"
        /\ style_name \in SubtitleStyle =>
              /\ looked_up.val = style_preset(style_name, platform_system)
              /\ \A other \in SubtitleStyle \ {style_name} :
                    looked_up.val # style_preset(other, platform_system)
        /\ style_name \notin SubtitleStyle =>
              looked_up.val = style_preset("default", platform_system)

(***************************************************************************)
(* process_multilingual_video (src/multilingual_processor.py): the steps   *)
(* before the loop and one action for each way an iteration ends.  A path  *)
(* in results is the language it is named after.                           *)
(***************************************************************************)
MaxLangs == 2

SupportedLanguage ==
    {"tr", "en", "fr", "de", "es", "it", "pt", "ru", "ja", "ko", "zh", "ar"}

LanguageSamples == {"en", "tr", "xx"}

LangInit ==
    /\ \E n \in 0..MaxLangs : languages \in [1..n -> LanguageSamples]
    /\ engine_known \in BOOLEAN
    /\ embed_subtitles \in BOOLEAN
    /\ lang_pc = "start"
    /\ lang_i = 1
    /\ results = NoResults
    /\ lang_log = <<>>
    /\ track_files = {}
    /\ OutsideLangIdle

\* no subtitle segments, or no duration from ffprobe: return before the loop
ReturnEarly ==
    /\ lang_pc = "start"
    /\ lang_pc' = "returned"
    /\ results' = [results EXCEPT
                      !.errors = Append(@, [kind |-> "call", lang |-> "none"])]
    /\ UNCHANGED <<languages, engine_known, embed_subtitles, lang_i, lang_log,
                   track_files, outsideLang>>

EnterLoop ==
    /\ lang_pc = "start"
    /\ lang_pc' = "loop"
    /\ UNCHANGED <<languages, engine_known, embed_subtitles, lang_i, results,
                   lang_log, track_files, outsideLang>>

InLangLoop == lang_pc = "loop" /\ lang_i <= Len(languages)

\* what an iteration did: whether it recorded an error, and what it added
LogEntry(failed, audio, video, subs) ==
    [lang |-> languages[lang_i], failed |-> failed, tts_audio |-> audio,
     video |-> video, subs |-> subs]

WithError(res, kind, lang) ==
    [res EXCEPT !.errors = Append(@, [kind |-> kind, lang |-> lang])]

WithAudio(res, lang) == [res EXCEPT !.tts_audio = Append(@, lang)]

WithVideo(res, lang, subs) ==
    [res EXCEPT
        !.videos_with_tts = Append(@, lang),
        !.videos_with_subtitles = IF subs THEN Append(@, lang) ELSE @,
        !.combined_videos = Append(@, [lang |-> lang, subs |-> subs])]

\* tts_engine not in self.language_configs
EngineUnsupported ==
    /\ InLangLoop
    /\ ~engine_known
    /\ results' = WithError(results, "engine", "none")
    /\ lang_log' = Append(lang_log, LogEntry(TRUE, FALSE, FALSE, FALSE))
    /\ lang_i' = lang_i + 1
    /\ UNCHANGED <<languages, engine_known, embed_subtitles, lang_pc,
                   track_files, outsideLang>>

\* lang_code not in self.language_configs[tts_engine]
LanguageUnsupported ==
    /\ InLangLoop
    /\ engine_known
    /\ languages[lang_i] \notin SupportedLanguage
    /\ results' = WithError(results, "language", languages[lang_i])
    /\ lang_log' = Append(lang_log, LogEntry(TRUE, FALSE, FALSE, FALSE))
    /\ lang_i' = lang_i + 1
    /\ UNCHANGED <<languages, engine_known, embed_subtitles, lang_pc,
                   track_files, outsideLang>>

CanProcess ==
    InLangLoop /\ engine_known /\ languages[lang_i] \in SupportedLanguage

\* create_tts_audio_track gave no path, or no file at the path
TrackMissing ==
    /\ CanProcess
    /\ results' = WithError(results, "tts_audio", languages[lang_i])
    /\ lang_log' = Append(lang_log, LogEntry(TRUE, FALSE, FALSE, FALSE))
    /\ lang_i' = lang_i + 1
    /\ UNCHANGED <<languages, engine_known, embed_subtitles, lang_pc,
                   track_files, outsideLang>>

\* an exception in the iteration: in create_tts_audio_track, in the MP3
\* export (the track's file then stays on disk), or in the final unlink,
\* after the video has been added
LanguageRaises ==
    /\ CanProcess
    /\ \E stage \in {"track", "mp3", "unlink"}, sub_success \in BOOLEAN :
          /\ results' =
                WithError(IF stage = "unlink"
                          THEN WithVideo(WithAudio(results, languages[lang_i]),
                                         languages[lang_i],
                                         embed_subtitles /\ sub_success)
                          ELSE results,
                          "exception", languages[lang_i])
          /\ lang_log' =
                Append(lang_log,
                       LogEntry(TRUE, stage = "unlink", stage = "unlink",
                                stage = "unlink" /\ embed_subtitles
                                    /\ sub_success))
          /\ track_files' = IF stage = "track" THEN track_files
                            ELSE track_files \cup {languages[lang_i]}
    /\ lang_i' = lang_i + 1
    /\ UNCHANGED <<languages, engine_known, embed_subtitles, lang_pc,
                   outsideLang>>

\* a slip: the failed mix returns the results where the code goes on
MixFailsReturns ==
    /\ CanProcess
    /\ results' = WithError(WithAudio(results, languages[lang_i]),
                            "video", languages[lang_i])
    /\ lang_log' = Append(lang_log, LogEntry(TRUE, TRUE, FALSE, FALSE))
    /\ lang_i' = lang_i + 1
    /\ lang_pc' = "done"
    /\ UNCHANGED <<languages, engine_known, embed_subtitles, track_files,
                   outsideLang>>

\* neither FFmpeg nor MoviePy combined video and track
MixFails ==
    /\ CanProcess
    /\ results' = WithError(WithAudio(results, languages[lang_i]),
                            "video", languages[lang_i])
    /\ lang_log' = Append(lang_log, LogEntry(TRUE, TRUE, FALSE, FALSE))
    /\ lang_i' = lang_i + 1
    /\ UNCHANGED <<languages, engine_known, embed_subtitles, lang_pc,
                   track_files, outsideLang>>

\* the video with the track is made; the subtitles are embedded if asked
\* for and if that succeeds
LanguageDone ==
    /\ CanProcess
    /\ \E sub_success \in BOOLEAN :
          /\ results' = WithVideo(WithAudio(results, languages[lang_i]),
                                  languages[lang_i],
                                  embed_subtitles /\ sub_success)
          /\ lang_log' =
                Append(lang_log,
                       LogEntry(FALSE, TRUE, TRUE,
                                embed_subtitles /\ sub_success))
    /\ lang_i' = lang_i + 1
    /\ UNCHANGED <<languages, engine_known, embed_subtitles, lang_pc,
                   track_files, outsideLang>>

ReturnResults ==
    /\ lang_pc = "loop"
    /\ lang_i > Len(languages)
    /\ lang_pc' = "done"
    /\ UNCHANGED <<languages, engine_known, embed_subtitles, lang_i, results,
                   lang_log, track_files, outsideLang>>

LangNext ==
    \/ ReturnEarly \/ EnterLoop \/ EngineUnsupported \/ LanguageUnsupported
    \/ TrackMissing \/ LanguageRaises \/ MixFails \/ LanguageDone
    \/ ReturnResults

SpecLang == LangInit /\ [][LangNext]_vars

Failed(entry) == entry.failed

MadeAudio(entry) == entry.tts_audio

MadeVideo(entry) == entry.video

LangsOf(entries) == [k \in DOMAIN entries |-> entries[k].lang]

SubtitledOf(videos) == {videos[n].lang : n \in {m \in DOMAIN videos : videos[m].subs}}

Range(list) == {list[n] : n \in DOMAIN list}

\* C30: every language handled adds exactly one entry to exactly one of
\* combined_videos and errors, so on return their lengths add up to the
\* number of languages; videos_with_tts is as long as combined_videos and
\* every entry of videos_with_subtitles is in combined_videos.
C30_ResultsAccount ==
    lang_pc \in {"loop", "done"} =>
        /\ Len(results.combined_videos) + Len(results.errors) = lang_i - 1
        /\ lang_pc = "done" =>
              Len(results.combined_videos) + Len(results.errors)
                  = Len(languages)
        /\ Len(results.videos_with_tts) = Len(results.combined_videos)
        /\ Range(results.videos_with_subtitles)
              \subseteq SubtitledOf(results.combined_videos)

(***************************************************************************)
(* The loop of main over the input files (src/app.py).                     *)
(***************************************************************************)
MaxFiles == 4

\* collect_inputs returns at least one file or exits
BatchInit ==
    /\ input_files \in 1..MaxFiles
    /\ batch_pc = "loop"
    /\ batch_i = 1
    /\ success_count = 0
    /\ file_log = <<>>
    /\ OutsideBatchIdle

InBatchLoop == batch_pc = "loop" /\ batch_i <= input_files

\* the body of the try runs to its end
FileSucceeds ==
    /\ InBatchLoop
    /\ success_count' = success_count + 1
    /\ file_log' = Append(file_log, "ok")
    /\ batch_i' = batch_i + 1
    /\ UNCHANGED <<input_files, batch_pc, outsideBatch>>

\* a slip: the handler ends the loop (break) where the code has continue
FileFailsBreaks ==
    /\ InBatchLoop
    /\ file_log' = Append(file_log, "failed")
    /\ batch_i' = input_files + 1
    /\ UNCHANGED <<input_files, batch_pc, success_count, outsideBatch>>

\* process_one raises: except Exception reports it and continues
FileFails ==
    /\ InBatchLoop
    /\ file_log' = Append(file_log, "failed")
    /\ batch_i' = batch_i + 1
    /\ UNCHANGED <<input_files, batch_pc, success_count, outsideBatch>>

\* SIGINT or SIGTERM: signal_handler calls sys.exit(1)
Interrupted ==
    /\ InBatchLoop
    /\ batch_pc' = "exited"
    /\ UNCHANGED <<input_files, batch_i, success_count, file_log,
                   outsideBatch>>

\* "Completed: <success_count> of <len(input_files)> files"
ReportBatch ==
    /\ batch_pc = "loop"
    /\ batch_i > input_files
    /\ batch_pc' = "done"
    /\ UNCHANGED <<input_files, batch_i, success_count, file_log,
                   outsideBatch>>

BatchNext ==
    FileSucceeds \/ FileFails \/ Interrupted \/ ReportBatch

SpecBatch == BatchInit /\ [][BatchNext]_vars

IsOk(outcome) == outcome = "ok"

\* C20: a file's failure is caught at the file boundary and the files after
\* it are still processed; the success count reported is the number of
\* files whose processing raised no error.
C20_BatchContinues ==
    /\ Len(file_log) = batch_i - 1
    /\ success_count = Len(SelectSeq(file_log, IsOk))
    /\ batch_pc = "done" => Len(file_log) = input_files

\* the count was reported after a failed file followed by a processed one
C20_Witness ==
    /\ batch_pc = "done"
    /\ \E i, j \in DOMAIN file_log :
          i < j /\ file_log[i] = "failed" /\ file_log[j] = "ok"
    /\ success_count < input_files

(***************************************************************************)
(* process_one (src/app.py): one media file through audio extraction,      *)
(* transcription, the writers and the embedding of the subtitles, with the *)
(* progress it reports and the files it leaves on disk.                    *)
(***************************************************************************)
total_steps == 5

\* ProgressTracker.update: int((step / self.total_steps) * 100)
ProgressOf(step) ==
    DTrunc(DMul(DDiv(DFromInt(step), DFromInt(total_steps)), DFromInt(100)))

update(printed, step) == Append(printed, ProgressOf(step))

Formats == {"srt", "vtt", "ass", "txt", "video"}

ProcInit ==
    /\ po_pc = "start"
    /\ po_video \in BOOLEAN
    /\ po_formats \in SUBSET Formats
    /\ model_loaded \in BOOLEAN
    /\ out_files = {}
    /\ written = {}
    /\ reports = <<>>
    /\ po_failed = "none"
    /\ po_result = NotCalled
    /\ OutsideProcIdle

\* the call leaves by an exception of the stage named
Raises(stage) ==
    /\ po_pc' = "done"
    /\ po_failed' = stage
    /\ po_result' = Raised("RuntimeError")

\* the media has an audio stream, or is no video
BeginProcessing ==
    /\ po_pc = "start"
    /\ reports' = update(reports, 1)
    /\ po_pc' = IF po_video THEN "audio" ELSE "transcribe"
    /\ UNCHANGED <<po_video, po_formats, model_loaded, out_files, written,
                   po_failed, po_result, outsideProc>>

\* "Video file has no audio track."
NoAudioTrack ==
    /\ po_pc = "start"
    /\ po_video
    /\ reports' = update(reports, 1)
    /\ Raises("probe")
    /\ UNCHANGED <<po_video, po_formats, model_loaded, out_files, written,
                   outsideProc>>

\* extract_audio returns: ffmpeg wrote the temporary WAV
ExtractAudio ==
    /\ po_pc = "audio"
    /\ reports' = update(update(reports, 2), 3)
    /\ out_files' = out_files \cup {"tmp_wav"}
    /\ po_pc' = "transcribe"
    /\ UNCHANGED <<po_video, po_formats, model_loaded, written, po_failed,
                   po_result, outsideProc>>

\* the causes extract_audio raises for before its try, and inside it
ExtractCausesBefore == {"not_found", "no_stream"}

ExtractCausesInside == {"timeout", "exit_code", "empty", "metadata"}

\* its except Exception: dst_wav.unlink() if dst_wav.exists()
AfterExtractFailure(files, cause, partial) ==
    IF cause \in ExtractCausesInside
    THEN (files \cup (IF partial THEN {"tmp_wav"} ELSE {})) \ {"tmp_wav"}
    ELSE files

\* extract_audio raises; partial: ffmpeg had begun to write the WAV
ExtractAudioFails ==
    /\ po_pc = "audio"
    /\ reports' = update(reports, 2)
    /\ \E cause \in ExtractCausesBefore \cup ExtractCausesInside,
          partial \in BOOLEAN :
          out_files' = AfterExtractFailure(out_files, cause, partial)
    /\ Raises("extract_audio")
    /\ UNCHANGED <<po_video, po_formats, model_loaded, written, outsideProc>>

\* transcribe reports its start and calls load_model
TranscribeBegin ==
    /\ po_pc = "transcribe"
    /\ reports' = update(reports, 3)
    /\ po_pc' = IF model_loaded THEN "model" ELSE "load"
    /\ UNCHANGED <<po_video, po_formats, model_loaded, out_files, written,
                   po_failed, po_result, outsideProc>>

\* load_model, self._model being None: it loads the model
LoadModel ==
    /\ po_pc = "load"
    /\ reports' = update(update(reports, 1), 2)
    /\ model_loaded' = TRUE
    /\ po_pc' = "model"
    /\ UNCHANGED <<po_video, po_formats, out_files, written, po_failed,
                   po_result, outsideProc>>

\* the finally of process_one's transcription: tmp_audio.unlink()
Unlinked(files) == files \ {"tmp_wav"}

\* "Failed to load Whisper model"
LoadModelFails ==
    /\ po_pc = "load"
    /\ reports' = update(reports, 1)
    /\ out_files' = Unlinked(out_files)
    /\ Raises("transcribe")
    /\ UNCHANGED <<po_video, po_formats, model_loaded, written, outsideProc>>

\* the model gave segments; "Generating subtitle files..."
Transcribed ==
    /\ po_pc = "model"
    /\ reports' = update(update(update(reports, 3), 4), 4)
    /\ out_files' = Unlinked(out_files)
    /\ po_pc' = "write"
    /\ UNCHANGED <<po_video, po_formats, model_loaded, written, po_failed,
                   po_result, outsideProc>>

\* the model raised, or "No speech detected in audio."
TranscribeFails ==
    /\ po_pc = "model"
    /\ \E cause \in {"raised", "no_segments"} :
          reports' = IF cause = "raised" THEN update(reports, 3)
                     ELSE update(update(reports, 3), 4)
    /\ out_files' = Unlinked(out_files)
    /\ Raises("transcribe")
    /\ UNCHANGED <<po_video, po_formats, model_loaded, written, outsideProc>>

EmbedsVideo == "video" \in po_formats /\ po_video

\* the keys of written before the embedding: the formats asked for, and
\* srt when the video is asked for with neither ass nor srt
WrittenFormats ==
    (po_formats \ {"video"})
        \cup (IF EmbedsVideo /\ po_formats \cap {"ass", "srt"} = {}
              THEN {"srt"} ELSE {})

\* the writers have run; without a video to embed the call returns
WriteFormats ==
    /\ po_pc = "write"
    /\ written' = WrittenFormats
    /\ out_files' = out_files \cup WrittenFormats
    /\ IF EmbedsVideo
       THEN /\ po_pc' = "embed"
            /\ UNCHANGED <<reports, po_result>>
       ELSE /\ po_pc' = "done"
            /\ reports' = update(reports, 5)
            /\ po_result' = Returned(WrittenFormats)
    /\ UNCHANGED <<po_video, po_formats, model_loaded, po_failed,
                   outsideProc>>

\* embed_subs returns
EmbedSubs ==
    /\ po_pc = "embed"
    /\ reports' = update(update(reports, 4), 5)
    /\ out_files' = out_files \cup {"video"}
    /\ written' = written \cup {"video"}
    /\ po_pc' = "done"
    /\ po_result' = Returned(written')
    /\ UNCHANGED <<po_video, po_formats, model_loaded, po_failed,
                   outsideProc>>

\* run raises in embed_subs, ffmpeg timing out or exiting non-zero;
\* partial: it had begun to write out_video.  "Failed to embed subtitles"
EmbedSubsFails ==
    /\ po_pc = "embed"
    /\ reports' = update(reports, 4)
    /\ \E cause \in {"timeout", "exit_code"}, partial \in BOOLEAN :
          out_files' = out_files \cup (IF partial THEN {"video"} ELSE {})
    /\ Raises("embed_subs")
    /\ UNCHANGED <<po_video, po_formats, model_loaded, written, outsideProc>>

ProcNext ==
    \/ BeginProcessing \/ NoAudioTrack
    \/ ExtractAudio \/ ExtractAudioFails
    \/ TranscribeBegin \/ LoadModel \/ LoadModelFails
    \/ Transcribed \/ TranscribeFails
    \/ WriteFormats \/ EmbedSubs \/ EmbedSubsFails

SpecProc == ProcInit /\ [][ProcNext]_vars

\* C21: when the embedding of the subtitles fails, process_one still
\* reports the other requested formats (srt, vtt, ass, txt) as produced.
C21_OtherFormatsReported ==
    po_failed = "embed_subs" =>
        /\ po_result.st = "ok"
        /\ po_formats \ {"video"} \subseteq po_result.val

\* C22: when extract_audio or embed_subs fails, the file it was writing
\* (the temporary WAV, the subtitled video) does not exist once the error
\* has reached the caller.
C22_NoPartialOutput ==
    /\ po_failed = "extract_audio" => "tmp_wav" \notin out_files
    /\ po_failed = "embed_subs" => "video" \notin out_files

\* C29: the percentages reported during one call never decrease, stay
\* within 0..100, and 100 is reported only by a call that returns.
C29_ProgressMonotone ==
    /\ \A i \in DOMAIN reports : reports[i] \in 0..100
    /\ \A i, j \in DOMAIN reports : i < j => reports[i] <= reports[j]
    /\ (\E i \in DOMAIN reports : reports[i] = 100) => po_result.st = "ok"

(***************************************************************************)
(* The upload handler of web_app.py and the background threads it starts:  *)
(* every request sets the attributes of the one global generator, names    *)
(* its output directory after the second it arrived in and runs            *)
(* process_one (src/app.py) in a thread of its own.                        *)
(***************************************************************************)
MaxClock == 2

\* the form fields model, gpu and no_enhance_audio of a request
Requests ==
    { [model_name |-> "base", use_gpu |-> FALSE, enhance_audio |-> TRUE],
      [model_name |-> "small", use_gpu |-> TRUE, enhance_audio |-> FALSE] }

Filenames == {"a.mp4", "b.mp4"}

WebInit ==
    /\ web_clock = 0
    /\ generator = NewGenerator
    /\ model_handle = NoModel
    /\ model_loads = 0
    /\ web_task = [k \in Tasks |-> NoTask("idle")]
    /\ OutsideWebIdle

At_(k, pc) == web_task[k].pc = pc

\* a second passes
Tick ==
    /\ web_clock < MaxClock
    /\ \E k \in Tasks : ~At_(k, "done")
    /\ web_clock' = web_clock + 1
    /\ UNCHANGED <<generator, model_handle, model_loads, web_task,
                   outsideWeb>>

\* upload_file: the request's settings are written into the global
\* generator, task_<timestamp> is made and the thread is started
Upload(k) ==
    /\ At_(k, "idle")
    /\ \E request \in Requests, filename \in Filenames :
          /\ generator' = request
          /\ web_task' =
                [web_task EXCEPT ![k].pc = "thread",
                                 ![k].request = request,
                                 ![k].filename = filename,
                                 ![k].task_id = web_clock]
    /\ UNCHANGED <<web_clock, model_handle, model_loads, outsideWeb>>

\* process_one in the thread: stem = f"{src.stem}_{timestamp}"
BeginTask(k) ==
    /\ At_(k, "thread")
    /\ web_task' =
          [web_task EXCEPT ![k].pc = "audio",
                           ![k].stem = <<web_task[k].filename, web_clock>>]
    /\ UNCHANGED <<web_clock, generator, model_handle, model_loads,
                   outsideWeb>>

\* extract_audio: the filters are built if self.enhance_audio
TaskExtractsAudio(k) ==
    /\ At_(k, "audio")
    /\ web_task' =
          [web_task EXCEPT ![k].pc = "transcribe",
                           ![k].enhance_audio = generator.enhance_audio]
    /\ UNCHANGED <<web_clock, generator, model_handle, model_loads,
                   outsideWeb>>

\* load_model: self._model is not None, and is returned
TaskReusesModel(k) ==
    /\ At_(k, "transcribe")
    /\ model_handle # NoModel
    /\ web_task' = [web_task EXCEPT ![k].pc = "model",
                                    ![k].model = model_handle]
    /\ UNCHANGED <<web_clock, generator, model_handle, model_loads,
                   outsideWeb>>

\* load_model: self._model is None, and whisper begins to load
\* self.model_name for the device self.use_gpu names
TaskBeginsLoad(k) ==
    /\ At_(k, "transcribe")
    /\ model_handle = NoModel
    /\ web_task' =
          [web_task EXCEPT ![k].pc = "loading",
                           ![k].model =
                               [model_name |-> generator.model_name,
                                use_gpu |-> generator.use_gpu]]
    /\ UNCHANGED <<web_clock, generator, model_handle, model_loads,
                   outsideWeb>>

\* the load returns and is assigned to self._model
TaskLoadsModel(k) ==
    /\ At_(k, "loading")
    /\ model_handle' = web_task[k].model
    /\ model_loads' = model_loads + 1
    /\ web_task' = [web_task EXCEPT ![k].pc = "model"]
    /\ UNCHANGED <<web_clock, generator, outsideWeb>>

\* the model transcribes and the writers write <out_dir>/<stem>.*
TaskWrites(k) ==
    /\ At_(k, "model")
    /\ web_task' = [web_task EXCEPT ![k].pc = "done"]
    /\ UNCHANGED <<web_clock, generator, model_handle, model_loads,
                   outsideWeb>>

WebNext ==
    \/ Tick
    \/ \E k \in Tasks :
          \/ Upload(k) \/ BeginTask(k) \/ TaskExtractsAudio(k)
          \/ TaskReusesModel(k) \/ TaskBeginsLoad(k) \/ TaskLoadsModel(k)
          \/ TaskWrites(k)

SpecWeb == WebInit /\ [][WebNext]_vars

\* C23: the model is loaded at most once per process, also when threads
\* call load_model before the first load has finished.
C23_LoadedOnce == model_loads <= 1

Transcribing(k) == web_task[k].pc \in {"model", "done"}

\* C24: the model name, GPU flag and audio-enhancement setting a task
\* runs with are those of its own request.
C24_OwnSettings ==
    \A k \in Tasks :
        /\ web_task[k].pc \in {"transcribe", "loading", "model", "done"}
              => web_task[k].enhance_audio = web_task[k].request.enhance_audio
        /\ Transcribing(k)
              => /\ web_task[k].model.model_name
                       = web_task[k].request.model_name
                 /\ web_task[k].model.use_gpu = web_task[k].request.use_gpu

\* the directory and the stem a task writes its outputs under
OutputPath(k) == <<web_task[k].task_id, web_task[k].stem>>

HasPath(k) == web_task[k].pc \in {"audio", "transcribe", "loading", "model"}

\* C25: two tasks that run concurrently never write to the same output
\* path, also when they start within the same second on the same name.
C25_DistinctPaths ==
    \A j, k \in Tasks :
        j # k /\ HasPath(j) /\ HasPath(k) => OutputPath(j) # OutputPath(k)

(***************************************************************************)
(* One language of process_multilingual_video, from the look-up of its     *)
(* configuration to the removal of its temporary track, with the states    *)
(* its assembly passes through: create_tts_audio_track allocates the       *)
(* track, handles the segments and exports it; the loop body then mixes    *)
(* it with the video and records the result.                               *)
(***************************************************************************)
AsmInit ==
    /\ asm_pc = "Idle"
    /\ asm_n \in 1..MaxSegs
    /\ asm_seg = 0
    /\ asm_outcomes = <<>>
    /\ asm_history = <<[st |-> "Idle", i |-> 0]>>
    /\ asm_exported = FALSE
    /\ asm_mixed = FALSE
    /\ asm_errors = 0
    /\ asm_cleaned = FALSE
    /\ OutsideAsmIdle

\* the assembly enters a state
Enters(st, i) ==
    /\ asm_pc' = st
    /\ asm_history' = Append(asm_history, [st |-> st, i |-> i])

\* an entry is appended to results['errors'] and the iteration is over
FailsWithError ==
    /\ Enters("Failed", 0)
    /\ asm_errors' = asm_errors + 1

\* the engine or the language is not in self.language_configs
ConfigUnsupported ==
    /\ asm_pc = "Idle"
    /\ FailsWithError
    /\ asm_cleaned' = TRUE
    /\ UNCHANGED <<asm_n, asm_seg, asm_outcomes, asm_exported, asm_mixed,
                   outsideAsm>>

\* create_tts_audio_track is called
BeginTrack ==
    /\ asm_pc = "Idle"
    /\ Enters("Allocating", 0)
    /\ UNCHANGED <<asm_n, asm_seg, asm_outcomes, asm_exported, asm_mixed,
                   asm_errors, asm_cleaned, outsideAsm>>

\* pydub is missing and None is returned, or AudioSegment.silent raises
AllocationFails ==
    /\ asm_pc = "Allocating"
    /\ FailsWithError
    /\ asm_cleaned' = TRUE
    /\ UNCHANGED <<asm_n, asm_seg, asm_outcomes, asm_exported, asm_mixed,
                   outsideAsm>>

\* the silent track is made and the loop begins with segment 0
TrackAllocated ==
    /\ asm_pc = "Allocating"
    /\ Enters("PerSegment", 0)
    /\ UNCHANGED <<asm_n, asm_seg, asm_outcomes, asm_exported, asm_mixed,
                   asm_errors, asm_cleaned, outsideAsm>>

SegmentOutcomes == {"skipped", "synth_failed", "overlaid", "error"}

\* one pass of the loop body: continue, or the end of the try
SegmentHandled ==
    /\ asm_pc = "PerSegment"
    /\ \E outcome \in SegmentOutcomes :
          asm_outcomes' = Append(asm_outcomes, outcome)
    /\ asm_seg' = asm_seg + 1
    /\ IF asm_seg + 1 < asm_n
       THEN Enters("PerSegment", asm_seg + 1)
       ELSE asm_pc' = "Export" /\ UNCHANGED asm_history
    /\ UNCHANGED <<asm_n, asm_exported, asm_mixed, asm_errors, asm_cleaned,
                   outsideAsm>>

\* an exception outside the loop's try (the print of the segment's text)
\* leaves create_tts_audio_track and is caught by the language's except
SegmentLoopRaises ==
    /\ asm_pc = "PerSegment"
    /\ FailsWithError
    /\ asm_cleaned' = TRUE
    /\ UNCHANGED <<asm_n, asm_seg, asm_outcomes, asm_exported, asm_mixed,
                   outsideAsm>>

\* silent_audio.export(...); return output_path; the path exists
TrackExported ==
    /\ asm_pc = "Export"
    /\ asm_exported' = TRUE
    /\ Enters("Mixing", 0)
    /\ UNCHANGED <<asm_n, asm_seg, asm_outcomes, asm_mixed, asm_errors,
                   asm_cleaned, outsideAsm>>

\* the export raises, or leaves no file at the path
ExportFails ==
    /\ asm_pc = "Export"
    /\ FailsWithError
    /\ asm_cleaned' = TRUE
    /\ UNCHANGED <<asm_n, asm_seg, asm_outcomes, asm_exported, asm_mixed,
                   outsideAsm>>

\* the MP3 copy of the track cannot be written: the language's except
Mp3ExportRaises ==
    /\ asm_pc = "Mixing"
    /\ FailsWithError
    /\ asm_cleaned' = TRUE
    /\ UNCHANGED <<asm_n, asm_seg, asm_outcomes, asm_exported, asm_mixed,
                   outsideAsm>>

\* a slip: the video is recorded although neither mix succeeded
NoMixRecorded ==
    /\ asm_pc = "Mixing"
    /\ Enters("Done", 0)
    /\ UNCHANGED <<asm_n, asm_seg, asm_outcomes, asm_exported, asm_mixed,
                   asm_errors, asm_cleaned, outsideAsm>>

\* neither FFmpeg nor MoviePy combined video and track: an error is recorded
NoMix ==
    /\ asm_pc = "Mixing"
    /\ FailsWithError
    /\ UNCHANGED <<asm_n, asm_seg, asm_outcomes, asm_exported, asm_mixed,
                   asm_cleaned, outsideAsm>>

\* FFmpeg or MoviePy returned True: the video is appended to
\* videos_with_tts and, with or without subtitles, to combined_videos
Mixed ==
    /\ asm_pc = "Mixing"
    /\ asm_mixed' = TRUE
    /\ Enters("Done", 0)
    /\ UNCHANGED <<asm_n, asm_seg, asm_outcomes, asm_exported, asm_errors,
                   asm_cleaned, outsideAsm>>

\* the temporary track is unlinked
Cleanup ==
    /\ asm_pc \in {"Done", "Failed"}
    /\ ~asm_cleaned
    /\ asm_cleaned' = TRUE
    /\ UNCHANGED <<asm_pc, asm_n, asm_seg, asm_outcomes, asm_history,
                   asm_exported, asm_mixed, asm_errors, outsideAsm>>

\* the unlink raises: the language's except records an error
CleanupRaises ==
    /\ asm_pc \in {"Done", "Failed"}
    /\ ~asm_cleaned
    /\ asm_cleaned' = TRUE
    /\ asm_errors' = asm_errors + 1
    /\ IF asm_pc = "Done" THEN Enters("Failed", 0)
       ELSE UNCHANGED <<asm_pc, asm_history>>
    /\ UNCHANGED <<asm_n, asm_seg, asm_outcomes, asm_exported, asm_mixed,
                   outsideAsm>>

AsmNext ==
    \/ ConfigUnsupported \/ BeginTrack \/ AllocationFails \/ TrackAllocated
    \/ SegmentHandled \/ SegmentLoopRaises \/ TrackExported \/ ExportFails
    \/ Mp3ExportRaises \/ NoMix \/ Mixed \/ Cleanup
    \/ CleanupRaises

SpecAsm == AsmInit /\ [][AsmNext]_vars

Rank(st) ==
    CASE st = "Idle" -> 0
      [] st = "Allocating" -> 1
      [] st = "PerSegment" -> 2
      [] st = "Mixing" -> 3
      [] st = "Done" -> 4
      [] st = "Failed" -> 5

\* from one state to the next: never out of Failed, and onward
Forward(from, to) ==
    /\ from.st # "Failed"
    /\ \/ Rank(to.st) > Rank(from.st)
       \/ from.st = "PerSegment" /\ to.st = "PerSegment" /\ to.i = from.i + 1

SegmentsBefore(k) ==
    {asm_history[j].i : j \in {m \in 1..k : asm_history[m].st = "PerSegment"}}

\* C27: the assembly only moves forward through Idle, Allocating,
\* PerSegmentSynthesis(0..n-1), Mixing, Done; Mixing is entered only with
\* every segment handled and the track exported, Done only after a mix
\* succeeded; a failure ends the assembly in Failed, which is never left.
C27_ForwardOnly ==
    /\ \A k \in 1..(Len(asm_history) - 1) :
          Forward(asm_history[k], asm_history[k + 1])
    /\ \A k \in DOMAIN asm_history :
          /\ asm_history[k].st = "Mixing" =>
                /\ asm_exported
                /\ Len(asm_outcomes) = asm_n
                /\ SegmentsBefore(k) = 0..(asm_n - 1)
          /\ asm_history[k].st = "Done" =>
                asm_mixed /\ asm_history[k - 1].st = "Mixing"
    /\ asm_errors > 0 => asm_pc = "Failed"
    /\ asm_pc \in {"Idle", "Allocating", "PerSegment", "Mixing", "Done",
                   "Failed"}
          => asm_history[Len(asm_history)].st = asm_pc

StatesOf(history) == [k \in DOMAIN history |-> history[k].st]

\* an assembly of two segments that reached Done, and one that failed in
\* Mixing after both segments were handled
C27_Witness ==
    /\ asm_n = 2
    /\ asm_cleaned
    /\ StatesOf(asm_history) \in
          { <<"Idle", "Allocating", "PerSegment", "PerSegment", "Mixing",
              "Done">>,
            <<"Idle", "Allocating", "PerSegment", "PerSegment", "Mixing",
              "Failed">> }

====
